---- MODULE Spec2Model ----
\* Strain-based PMC engine and energy-system balance calculator of
\* intervals_mcp_server (tools/strain_pmc.py, tools/energy_balance.py).
\*
\* Numbers.  Python floats are binary floating point: every arithmetic
\* operation rounds its exact result to the nearest representable value
\* (ties to even).  The model keeps that behaviour at a reduced width: a
\* float is an integer count of 2^-FracBits units that carries at most
\* MantBits significant bits, and every operation rounds as IEEE-754 does
\* (53 significant bits in the program, MantBits here).
\*
\* Dates.  A datetime is [day, tod]: a day number and a time of day
\* (0 = midnight).  A date string is [k, d, t]: k = "iso" is a string that
\* starts with the ten characters YYYY-MM-DD of day d (t = 1: a time part
\* follows), k = "empty" is "", k = "low" / "high" are non-ISO strings
\* that sort before / after every ISO date.
EXTENDS Integers, Sequences, FiniteSets, TLC

VARIABLES
    activities,     \* the activity list passed to the function
    as_of_date,     \* datetime argument of _calculate_strain_pmc
    ctl_days,       \* time constants (arguments)
    atl_days,
    pc,             \* position in the running function
    exc,            \* exception raised ("none" while none)
    ctl_decay, atl_decay, ctl_factor, atl_factor,
    pmc,            \* system -> [ctl, atl, tsb]
    daily_strain,   \* date key -> system -> summed strain
    i,              \* index of the next activity of the for loop
    start_date,
    current_date,
    processed,      \* history: <<[day, load]>> of the day-loop iterations
    totals,         \* _calculate_energy_balance: system -> sum
    balance,        \* _calculate_energy_balance: the returned dict
    caller,         \* "direct": the function is called by itself,
                    \* "get_strain_pmc": it runs inside the tool
    athlete_error,  \* resolve_athlete_id returned an error message
    as_of_param,    \* the tool's as_of_date string (or None)
    history_days,   \* the tool's history_days
    current_start,  \* _fetch_all_activities: start of the next window
    end_date,       \* _fetch_all_activities: end of the range
    all_activities, \* _fetch_all_activities: activities gathered so far
    requests,       \* history: <<[oldest, newest, got]>> of the requests made
    tool_ret,       \* what the tool returned ("none" while running)
    days,           \* get_energy_system_balance: days
    start_param,    \* get_energy_system_balance: start_date (or None)
    end_param,      \* get_energy_system_balance: end_date (or None)
    fetch_start,    \* the tool's start_date string
    calls,          \* history: the calculations the tool has invoked
    days_in_period, \* _format_energy_balance_response: days_in_period
    trace,          \* history: the pmc dict after each day-loop pass
    tasks,          \* concurrent tool invocations: task -> its locals
    kept,           \* history: daily_strain as the last finished call left it
    sport_type,     \* get_athlete_settings: sport_type
    params,         \* get_power_curve: the params of the request
    sport_settings_result,  \* get_athlete_settings: the first response
    athlete_result, \* get_athlete_settings: athlete_result, as merged
    merged_settings,        \* get_athlete_settings: merged_settings
    curve_result,   \* get_power_curve: result
    power_curve_data,       \* get_power_curve: power_curve_data
    urls,           \* history: the requests of these two tools
    returned        \* what get_athlete_settings or get_power_curve returned

toolVars == <<caller, athlete_error, as_of_param, history_days,
              current_start, end_date, all_activities, requests, tool_ret,
              days, start_param, end_param, fetch_start, calls,
              days_in_period>>

\* variables of the concurrent invocations and of the tools that do not
\* fetch activities
extVars == <<tasks, kept, sport_type, params, sport_settings_result,
             athlete_result, merged_settings, curve_result,
             power_curve_data, urls, returned>>

vars == <<activities, as_of_date, ctl_days, atl_days, pc, exc, ctl_decay,
          atl_decay, ctl_factor, atl_factor, pmc, daily_strain, i,
          start_date, current_date, processed, totals, balance, caller,
          athlete_error, as_of_param, history_days, current_start,
          end_date, all_activities, requests, tool_ret, days, start_param,
          end_param, fetch_start, calls, days_in_period, trace, tasks,
          kept, sport_type, params, sport_settings_result, athlete_result,
          merged_settings, curve_result, power_curve_data, urls, returned>>

-----------------------------------------------------------------------------
\* Bounds of the model.

\* significant bits of a float (the program's floats have 53)
MantBits == 5
\* longest activity list of a PMC call
MaxActs == 2
\* longest activity list of a balance call
MaxBalActs == 3
\* activities are dated on days 1..MaxDay
MaxDay == 2
\* terms of the series that stands for math.exp
ExpTerms == 8
\* longest series of days with a constant load
MaxConstDays == 12
\* longest series of days after a single day of load
MaxSpikeDays == 45
\* most requests of one fetch
MaxRequests == 4

\* fallback window of an empty activity list, in days
FallbackDays == 90
\* default time constants
DefaultCtlDays == 42
DefaultAtlDays == 7
\* default history_days of get_strain_pmc
DefaultHistoryDays == 90
\* width added to the start of a fetch window, in days
ChunkDays == 90
\* default days of get_energy_system_balance
DefaultDays == 14

-----------------------------------------------------------------------------
\* Floating point.

RECURSIVE Pow2(_)
Pow2(n) == IF n <= 0 THEN 1 ELSE 2 * Pow2(n - 1)

FracBits == MantBits + 3
\* the float 1.0
One == Pow2(FracBits)
\* half a unit in the last place of 1.0: One + HalfUlp is a rounding tie
HalfUlp == One \div Pow2(MantBits)

Abs(x) == IF x < 0 THEN -x ELSE x

\* num / den rounded to the nearest integer, ties to even (num >= 0, den > 0)
RoundHalfEven(num, den) ==
    LET q == num \div den
        r == num % den
    IN  IF 2 * r > den \/ (2 * r = den /\ q % 2 = 1) THEN q + 1 ELSE q

\* least s with floor(num / (den * 2^s)) < 2^MantBits
RECURSIVE ShiftFor(_, _, _)
ShiftFor(num, den, s) ==
    IF num \div (den * Pow2(s)) < Pow2(MantBits) THEN s
    ELSE ShiftFor(num, den, s + 1)

\* the value of magnitude a / den units with the sign of num (a >= 0)
RoundMagnitude(num, a, den) ==
    LET m == RoundHalfEven(a, den * Pow2(ShiftFor(a, den, 0)))
                * Pow2(ShiftFor(a, den, 0))
    IN  IF num < 0 THEN -m ELSE m

\* the float nearest to the rational num / den units (den > 0); num is
\* evaluated once
FRound(num, den) ==
    CHOOSE m \in {RoundMagnitude(n, Abs(n), den) : n \in {num}} : TRUE

FAdd(a, b) == FRound(a + b, 1)
FSub(a, b) == FRound(a - b, 1)
FMul(a, b) == FRound(a * b, One)
\* a / b for b # 0
FDiv(a, b) == IF b < 0 THEN FRound(-(a * One), -b) ELSE FRound(a * One, b)
\* float(n) of an int
FromInt(n) == FRound(n * One, 1)

\* math.exp(x) for a float x: the power series summed with 8 guard bits,
\* then rounded to a float
ExpGuard == Pow2(8)
RECURSIVE ExpSeries(_, _, _)
ExpSeries(x, k, term) ==
    IF k > ExpTerms THEN 0
    ELSE term + ExpSeries(x, k + 1,
                          LET p == term * x
                              d == One * (k + 1)
                          IN  IF p < 0 THEN -((-p) \div d) ELSE p \div d)
FExp(x) == FRound(ExpSeries(x, 0, One * ExpGuard), ExpGuard)

\* -1 / n_days of two ints (true division, one rounding); n_days # 0
NegInverse(n_days) ==
    IF n_days < 0 THEN FRound(One, -n_days) ELSE -FRound(One, n_days)

-----------------------------------------------------------------------------
\* Values of the activity dicts.

\* a key that is not in the dict
Absent == [k |-> "absent", v |-> 0]
\* a key that maps to None
Null == [k |-> "null", v |-> 0]
Num(x) == [k |-> "num", v |-> x]

AbsentDate == [k |-> "absent", d |-> 0, t |-> 0]
NullDate == [k |-> "null", d |-> 0, t |-> 0]
EmptyStr == [k |-> "empty", d |-> 0, t |-> 0]
LowStr == [k |-> "low", d |-> 0, t |-> 0]
HighStr == [k |-> "high", d |-> 0, t |-> 0]
Iso(day, t) == [k |-> "iso", d |-> day, t |-> t]
\* a date of the same year written without the dashes: "20240630"
Basic(day) == [k |-> "basic", d |-> day, t |-> 0]

\* dict.get(key, default)
DictGet(val, default) == IF val.k = "absent" THEN default ELSE val

\* s[:10]: the time part of an ISO string is cut off, "" and short
\* strings stay as they are
Slice10(s) == [s EXCEPT !.t = 0]

\* Python's order of strings: "-" sorts before every digit, so a date with
\* dashes is less than every date of its year without them
StrRank(s) == CASE s.k = "empty" -> 0 [] s.k = "low" -> 1
                [] s.k = "iso" -> 2 [] s.k = "basic" -> 3 [] OTHER -> 4
StrLess(a, b) ==
    \/ StrRank(a) < StrRank(b)
    \/ a.k = "iso" /\ b.k = "iso" /\ (a.d < b.d \/ (a.d = b.d /\ a.t < b.t))
    \/ a.k = "basic" /\ b.k = "basic" /\ a.d < b.d

\* min() of a non-empty set of strings
MinStr(keys) == CHOOSE m \in keys : \A o \in keys : o = m \/ StrLess(m, o)

\* mutant: every string is taken for a date
FromIsoFormatLenient(s) == [ok |-> TRUE, dt |-> [day |-> s.d, tod |-> 0]]

\* datetime.fromisoformat of a date string, with or without the dashes
FromIsoFormat(s) ==
    IF s.k \in {"iso", "basic"} /\ s.t = 0
    THEN [ok |-> TRUE, dt |-> [day |-> s.d, tod |-> 0]]
    ELSE [ok |-> FALSE, dt |-> [day |-> 0, tod |-> 0]]

\* dt.strftime("%Y-%m-%d")
Strftime(dt) == Iso(dt.day, 0)

\* dt + timedelta(days = n)
AddDays(dt, n) == [dt EXCEPT !.day = dt.day + n]

\* a <= b of datetimes
DtLeq(a, b) == a.day < b.day \/ (a.day = b.day /\ a.tod <= b.tod)

\* (a - b).days
DeltaDays(a, b) ==
    IF a.tod >= b.tod THEN a.day - b.day ELSE a.day - b.day - 1

-----------------------------------------------------------------------------
\* _calculate_strain_pmc

systems == <<"sscp", "ssw", "sspmax">>
Systems == {systems[n] : n \in 1..Len(systems)}

ZeroLoad == [sscp |-> 0, ssw |-> 0, sspmax |-> 0]
ZeroState == [ctl |-> 0, atl |-> 0, tsb |-> 0]
ZeroPmc == [sscp |-> ZeroState, ssw |-> ZeroState, sspmax |-> ZeroState]
EmptyDict == <<>>

\* math.exp(-1 / n_days)
Decay(n_days) == FExp(NegInverse(n_days))
\* mutant: the decay itself is taken for the factor
FactorIsDecay(decay) == decay

\* 1 - decay
Factor(decay) == FSub(One, decay)

\* activity.get("start_date", activity.get("startTime", ""))
GetDate(a) == DictGet(a.start_date, DictGet(a.startTime, EmptyStr))

FieldOr0(val) == IF val.k = "num" THEN val.v ELSE 0

\* mutant: activity.get(key, 0), the "or 0" forgotten
StrainOfNoOr(val) == DictGet(val, Num(0))

\* activity.get(key, 0) or 0
StrainOf(val) ==
    LET got == DictGet(val, Num(0))
    IN  IF got.k = "null" \/ got.v = 0 THEN Num(0) ELSE got

\* defaultdict lookup: a missing key is entered with the zero triple
Lookup(daily, key) == IF key \in DOMAIN daily THEN daily[key] ELSE ZeroLoad
Enter(daily, key, load) == (key :> load) @@ daily

\* mutant: "=" written for "+="
AddStrainOverwrite(daily, key, a) ==
    [exc |-> "none",
     daily |-> (key :> [sscp |-> FieldOr0(a.ss_cp),
                        ssw |-> FieldOr0(a.ss_w_prime),
                        sspmax |-> FieldOr0(a.ss_p_max)]) @@ daily]

\* the three += of one activity; adding None raises TypeError
AddStrain(daily, key, a) ==
    LET cur == Lookup(daily, key)
        cp == StrainOf(a.ss_cp)
        wp == StrainOf(a.ss_w_prime)
        pm == StrainOf(a.ss_p_max)
    IN  IF cp.k # "num" \/ wp.k # "num" \/ pm.k # "num"
        THEN [exc |-> "TypeError", daily |-> daily]
        ELSE [exc |-> "none",
              daily |-> Enter(daily, key,
                              [sscp |-> FAdd(cur.sscp, cp.v),
                               ssw |-> FAdd(cur.ssw, wp.v),
                               sspmax |-> FAdd(cur.sspmax, pm.v)])]

\* body of the for loop over the activities
AggregateStep(daily, a) ==
    LET date == GetDate(a)
    IN  IF date.k = "null" THEN [exc |-> "TypeError", daily |-> daily]
        ELSE IF Slice10(date).k = "empty" THEN [exc |-> "none", daily |-> daily]
        ELSE AddStrain(daily, Slice10(date), a)

\* mutant: the start clamped to as_of_date
StartOfClamped(acts, daily, asof) ==
    IF Len(acts) > 0
    THEN IF DOMAIN daily = {}
         THEN [exc |-> "ValueError", dt |-> asof]
         ELSE LET parsed == FromIsoFormat(MinStr(DOMAIN daily))
              IN  IF parsed.ok
                  THEN [exc |-> "none",
                        dt |-> IF DtLeq(parsed.dt, asof) THEN parsed.dt
                               ELSE asof]
                  ELSE [exc |-> "ValueError", dt |-> asof]
    ELSE [exc |-> "none", dt |-> AddDays(asof, -FallbackDays)]

\* mutant: an empty list is not given the fallback window
StartOfNoFallback(acts, daily, asof) ==
    IF DOMAIN daily = {}
    THEN [exc |-> "ValueError", dt |-> asof]
    ELSE LET parsed == FromIsoFormat(MinStr(DOMAIN daily))
         IN  IF parsed.ok THEN [exc |-> "none", dt |-> parsed.dt]
             ELSE [exc |-> "ValueError", dt |-> asof]

\* the start of the day loop
StartOf(acts, daily, asof) ==
    IF Len(acts) > 0
    THEN IF DOMAIN daily = {}
         THEN [exc |-> "ValueError", dt |-> asof]
         ELSE LET parsed == FromIsoFormat(MinStr(DOMAIN daily))
              IN  IF parsed.ok THEN [exc |-> "none", dt |-> parsed.dt]
                  ELSE [exc |-> "ValueError", dt |-> asof]
    ELSE [exc |-> "none", dt |-> AddDays(asof, -FallbackDays)]

\* mutant: "<" written for "<="
LoopCondStrict(cur, asof) ==
    cur.day < asof.day \/ (cur.day = asof.day /\ cur.tod < asof.tod)

\* while current_date <= as_of_date
LoopCond(cur, asof) == DtLeq(cur, asof)

\* mutant: atl updated with the ctl factors
SystemStepSwapped(ps, load, cd, cf, ad, af) ==
    [ctl |-> FAdd(FMul(ps.ctl, cd), FMul(load, cf)),
     atl |-> FAdd(FMul(ps.atl, cd), FMul(load, cf)),
     tsb |-> ps.tsb]

\* the two assignments of the day loop for one system
SystemStep(ps, load, cd, cf, ad, af) ==
    [ctl |-> FAdd(FMul(ps.ctl, cd), FMul(load, cf)),
     atl |-> FAdd(FMul(ps.atl, ad), FMul(load, af)),
     tsb |-> ps.tsb]

\* one pass of "for sys in systems" inside the day loop
DayStep(p, load, cd, cf, ad, af) ==
    [sscp |-> SystemStep(p.sscp, load.sscp, cd, cf, ad, af),
     ssw |-> SystemStep(p.ssw, load.ssw, cd, cf, ad, af),
     sspmax |-> SystemStep(p.sspmax, load.sspmax, cd, cf, ad, af)]

\* mutant: tsb is atl - ctl
WithTsbFlipped(p) ==
    [sscp |-> [p.sscp EXCEPT !.tsb = FSub(p.sscp.atl, p.sscp.ctl)],
     ssw |-> [p.ssw EXCEPT !.tsb = FSub(p.ssw.atl, p.ssw.ctl)],
     sspmax |-> [p.sspmax EXCEPT !.tsb = FSub(p.sspmax.atl, p.sspmax.ctl)]]

\* the closing loop that sets tsb
WithTsb(p) ==
    [sscp |-> [p.sscp EXCEPT !.tsb = FSub(p.sscp.ctl, p.sscp.atl)],
     ssw |-> [p.ssw EXCEPT !.tsb = FSub(p.ssw.ctl, p.ssw.atl)],
     sspmax |-> [p.sspmax EXCEPT !.tsb = FSub(p.sspmax.ctl, p.sspmax.atl)]]

\* the whole function, as one value: [exc, pmc, days] where days lists
\* the iterations of the day loop
RECURSIVE AggregateAll(_, _, _)
AggregateAll(acts, n, daily) ==
    IF n > Len(acts) THEN [exc |-> "none", daily |-> daily]
    ELSE LET r == AggregateStep(daily, acts[n])
         IN  IF r.exc # "none" THEN r ELSE AggregateAll(acts, n + 1, r.daily)

\* st = [pmc, days, daily, cur]; every pass works on the evaluated state
RECURSIVE DayLoopAll(_, _, _, _, _, _)
DayLoopAll(st, asof, cd, cf, ad, af) ==
    LET pass(q) ==
            IF ~LoopCond(q.cur, asof) THEN q
            ELSE LET load == Lookup(q.daily, Strftime(q.cur))
                 IN  DayLoopAll(
                         [pmc |-> DayStep(q.pmc, load, cd, cf, ad, af),
                          days |-> Append(q.days,
                                          [day |-> q.cur.day, load |-> load]),
                          daily |-> Enter(q.daily, Strftime(q.cur), load),
                          cur |-> AddDays(q.cur, 1)],
                         asof, cd, cf, ad, af)
    IN  CHOOSE r \in {pass(q) : q \in {st}} : TRUE

Raised(e) == [exc |-> e, pmc |-> ZeroPmc, days |-> <<>>]

CalcStrainPmc(acts, asof, cdays, adays) ==
    IF cdays = 0 \/ adays = 0 THEN Raised("ZeroDivisionError")
    ELSE LET agg == AggregateAll(acts, 1, EmptyDict)
         IN  IF agg.exc # "none" THEN Raised(agg.exc)
             ELSE LET st == StartOf(acts, agg.daily, asof)
                  IN  IF st.exc # "none" THEN Raised(st.exc)
                      ELSE LET r == DayLoopAll([pmc |-> ZeroPmc,
                                                days |-> <<>>,
                                                daily |-> agg.daily,
                                                cur |-> st.dt],
                                               asof, Decay(cdays),
                                               Factor(Decay(cdays)),
                                               Decay(adays),
                                               Factor(Decay(adays)))
                           IN  [exc |-> "none", pmc |-> WithTsb(r.pmc),
                                days |-> r.days]

-----------------------------------------------------------------------------
\* _calculate_energy_balance

ZeroTotals == [aerobic |-> 0, glycolytic |-> 0, neuromuscular |-> 0]

ZeroBalance ==
    [aerobic_pct |-> 0, glycolytic_pct |-> 0, neuromuscular_pct |-> 0,
     aerobic_total |-> 0, glycolytic_total |-> 0, neuromuscular_total |-> 0,
     total_strain |-> 0]

\* mutant: "=" written for "+="
AddTotalsOverwrite(tot, a) ==
    [exc |-> "none",
     totals |-> [aerobic |-> FieldOr0(a.ss_cp),
                 glycolytic |-> FieldOr0(a.ss_w_prime),
                 neuromuscular |-> FieldOr0(a.ss_p_max)]]

\* body of the for loop: the three +=; adding None raises TypeError
AddTotals(tot, a) ==
    LET cp == StrainOf(a.ss_cp)
        wp == StrainOf(a.ss_w_prime)
        pm == StrainOf(a.ss_p_max)
    IN  IF cp.k # "num" \/ wp.k # "num" \/ pm.k # "num"
        THEN [exc |-> "TypeError", totals |-> tot]
        ELSE [exc |-> "none",
              totals |-> [aerobic |-> FAdd(tot.aerobic, cp.v),
                          glycolytic |-> FAdd(tot.glycolytic, wp.v),
                          neuromuscular |-> FAdd(tot.neuromuscular, pm.v)]]

\* sum(totals.values()): 0 + aerobic + glycolytic + neuromuscular
SumValues(tot) ==
    FAdd(FAdd(FAdd(0, tot.aerobic), tot.glycolytic), tot.neuromuscular)

\* mutant: the factor 100 forgotten
PercentFraction(part, whole) == FDiv(part, whole)

\* (part / whole) * 100
Percent(part, whole) == FMul(FDiv(part, whole), FromInt(100))

\* the returned dict
BalanceOf(tot) ==
    IF SumValues(tot) = 0 THEN ZeroBalance
    ELSE [aerobic_pct |-> Percent(tot.aerobic, SumValues(tot)),
          glycolytic_pct |-> Percent(tot.glycolytic, SumValues(tot)),
          neuromuscular_pct |-> Percent(tot.neuromuscular, SumValues(tot)),
          aerobic_total |-> tot.aerobic,
          glycolytic_total |-> tot.glycolytic,
          neuromuscular_total |-> tot.neuromuscular,
          total_strain |-> SumValues(tot)]

\* the whole function, as one value: [exc, balance]
RECURSIVE SumAll(_, _, _)
SumAll(acts, n, tot) ==
    IF n > Len(acts) THEN [exc |-> "none", totals |-> tot]
    ELSE LET r == AddTotals(tot, acts[n])
         IN  IF r.exc # "none" THEN r ELSE SumAll(acts, n + 1, r.totals)

CalcEnergyBalance(acts) ==
    LET r == SumAll(acts, 1, ZeroTotals)
    IN  IF r.exc # "none" THEN [exc |-> r.exc, balance |-> ZeroBalance]
        ELSE [exc |-> "none", balance |-> BalanceOf(r.totals)]

-----------------------------------------------------------------------------
\* _format_energy_balance_response and its helpers.  A percentage p of the
\* balance stands for p / One; the thresholds are integers, and a float is
\* compared with an integer exactly.

\* STRAIN_TARGETS: (minimum, maximum) in percent
StrainTargets ==
    [aerobic |-> <<70, 80>>, glycolytic |-> <<15, 25>>,
     neuromuscular |-> <<5, 10>>]

\* _assess_system: the text of the distribution line.  The products
\* target_min * 0.6 and target_max * 1.3 of the three targets are the
\* doubles 42.0, 9.0, 3.0 and 104.0, 32.5, 13.0, the decimal products.
AssessSystem(pct, target_min, target_max) ==
    IF pct = 0 THEN "No strain data"
    ELSE IF 10 * pct < 6 * target_min * One THEN "Severely deficient"
    ELSE IF pct < target_min * One THEN "Deficient"
    ELSE IF 10 * pct > 13 * target_max * One THEN "Excessively elevated"
    ELSE IF pct > target_max * One THEN "Elevated"
    ELSE "Adequate"

\* the three distribution lines
Distribution(b) ==
    [aerobic |-> AssessSystem(b.aerobic_pct, StrainTargets.aerobic[1],
                              StrainTargets.aerobic[2]),
     glycolytic |-> AssessSystem(b.glycolytic_pct,
                                 StrainTargets.glycolytic[1],
                                 StrainTargets.glycolytic[2]),
     neuromuscular |-> AssessSystem(b.neuromuscular_pct,
                                    StrainTargets.neuromuscular[1],
                                    StrainTargets.neuromuscular[2])]

\* deficient_systems of the Assessment section
DeficientSystems(b) ==
    (IF b.aerobic_pct < StrainTargets.aerobic[1] * One
     THEN <<"Aerobic">> ELSE <<>>)
    \o (IF b.glycolytic_pct < StrainTargets.glycolytic[1] * One
        THEN <<"Glycolytic">> ELSE <<>>)
    \o (IF b.neuromuscular_pct < StrainTargets.neuromuscular[1] * One
        THEN <<"Neuromuscular">> ELSE <<>>)

\* the line of the Assessment section
Assessment(b) ==
    IF b.total_strain = 0 THEN "No strain data available"
    ELSE IF DeficientSystems(b) # <<>> THEN "DEFICIENT below target range"
    ELSE "All systems within or above target ranges"

\* _generate_recommendations: the recommendations in their order
GenerateRecommendations(b) ==
    LET recommendations ==
            (IF b.aerobic_pct < 60 * One THEN <<"Increase aerobic">>
             ELSE IF b.aerobic_pct > 85 * One THEN <<"Reduce aerobic">>
             ELSE <<>>)
            \o (IF b.glycolytic_pct < 10 * One
                THEN <<"Increase glycolytic">>
                ELSE IF b.glycolytic_pct > 28 * One
                THEN <<"Reduce glycolytic">>
                ELSE <<>>)
            \o (IF b.neuromuscular_pct < 2 * One
                THEN <<"Increase neuromuscular">>
                ELSE IF b.neuromuscular_pct > 12 * One
                THEN <<"Reduce neuromuscular">>
                ELSE <<>>)
    IN  IF recommendations = <<>>
        THEN <<"Strain distribution is well-balanced">>
        ELSE recommendations

\* the sections of the report that depend on the balance
FormatEnergyBalanceResponse(b) ==
    [distribution |-> Distribution(b),
     deficient_systems |-> DeficientSystems(b),
     assessment |-> Assessment(b),
     recommendations |-> GenerateRecommendations(b)]

-----------------------------------------------------------------------------
\* Inputs.

\* <<start_date, startTime>> of the activities that carry an ISO date
IsoShapes ==
    {<<AbsentDate, Iso(1, 0)>>}
    \cup {<<Iso(d, 1), AbsentDate>> : d \in 1..MaxDay}

DateShapes ==
    {<<AbsentDate, AbsentDate>>, <<NullDate, AbsentDate>>,
     <<EmptyStr, AbsentDate>>, <<LowStr, AbsentDate>>,
     <<HighStr, AbsentDate>>}
    \cup IsoShapes

Activity(ds, ss) ==
    [start_date |-> ds[1], startTime |-> ds[2],
     ss_cp |-> ss[1], ss_w_prime |-> ss[2], ss_p_max |-> ss[3]]

\* every date shape with the first strain triple, the dated ones with the
\* second as well
PmcActivities ==
    {Activity(ds, <<Num(One), Absent, Null>>) : ds \in DateShapes}
    \cup {Activity(ds, <<Null, Num(2 * One), Num(One \div 2)>>) :
              ds \in IsoShapes}

BalStrainShapes ==
    {<<Num(One), Absent, Null>>,
     <<Num(HalfUlp), Num(One), Num(2 * One)>>,
     <<Absent, Null, Absent>>,
     <<Null, Num(2 * One), Num(One)>>}

BalActivities ==
    {Activity(<<Iso(1, 1), AbsentDate>>, ss) : ss \in BalStrainShapes}

ListsUpTo(S, n) == UNION {[1..m -> S] : m \in 0..n}

AsOfDates ==
    {[day |-> 0, tod |-> 0], [day |-> MaxDay, tod |-> 1],
     [day |-> MaxDay + 1, tod |-> 0]}

TimeConstants ==
    {<<DefaultCtlDays, DefaultAtlDays>>, <<0, DefaultAtlDays>>,
     <<DefaultCtlDays, 0>>, <<-1, -2>>}

NoDate == [day |-> 0, tod |-> 0]

\* None passed for a string parameter
NoneParam == [k |-> "none", d |-> 0, t |-> 0]

\* a value of a JSON object: a key that is not there, a string, null or
\* a list
NoVal == [k |-> "missing", s |-> "", items |-> <<>>]
Str(s) == [k |-> "str", s |-> s, items |-> <<>>]
NoneVal == [k |-> "none", s |-> "", items |-> <<>>]
ListVal(items) == [k |-> "list", s |-> "", items |-> items]
\* a value that is neither a list nor a string
OtherVal == [k |-> "other", s |-> "", items |-> <<>>]

\* the keys of the settings dicts
AthleteKeys ==
    {"weight", "name", "firstname", "lastname", "measurement_preference"}
SettingKeys == AthleteKeys \cup
    {"email", "types", "ftp", "sport_type", "error", "message"}

\* {}
EmptySettings == [key \in SettingKeys |-> NoVal]

\* a JSON response: a dict, a list or None
JDict(d) == [k |-> "dict", d |-> d, l |-> <<>>]
JList(l) == [k |-> "list", d |-> EmptySettings, l |-> l]
JNone == [k |-> "none", d |-> EmptySettings, l |-> <<>>]

\* the response of the power-curves request
CurveJson(kind, error, message, list) ==
    [k |-> kind, error |-> error, message |-> message, list |-> list]
NoCurve == CurveJson("none", NoVal, NoVal, NoVal)

\* power_curve_data = {}
EmptyCurve == [sec \in {} |-> [watts |-> Null, wkg |-> Null]]

NoParams == [type |-> "", curves |-> ""]
NotReturned == [kind |-> "none", prefix |-> "", message |-> ""]

\* no concurrent invocation, and no call of get_athlete_settings or
\* get_power_curve
ExtIdle ==
    /\ tasks = <<>>
    /\ kept = <<>>
    /\ sport_type = ""
    /\ params = NoParams
    /\ sport_settings_result = JNone
    /\ athlete_result = JNone
    /\ merged_settings = EmptySettings
    /\ curve_result = NoCurve
    /\ power_curve_data = EmptyCurve
    /\ urls = <<>>
    /\ returned = NotReturned

\* the tool variables of a run that does not go through a tool
NoTool ==
    /\ athlete_error = FALSE
    /\ as_of_param = NoneParam
    /\ history_days = 0
    /\ current_start = EmptyStr
    /\ end_date = EmptyStr
    /\ all_activities = <<>>
    /\ requests = <<>>
    /\ tool_ret = "none"
    /\ days = 0
    /\ start_param = NoneParam
    /\ end_param = NoneParam
    /\ fetch_start = EmptyStr
    /\ calls = <<>>
    /\ days_in_period = 0

-----------------------------------------------------------------------------
\* A call of _calculate_strain_pmc, statement by statement.

InitPmc ==
    /\ activities \in ListsUpTo(PmcActivities, MaxActs)
    /\ as_of_date \in AsOfDates
    /\ \E tc \in TimeConstants : ctl_days = tc[1] /\ atl_days = tc[2]
    /\ pc = "begin"
    /\ exc = "none"
    /\ ctl_decay = 0 /\ atl_decay = 0 /\ ctl_factor = 0 /\ atl_factor = 0
    /\ pmc = ZeroPmc
    /\ daily_strain = EmptyDict
    /\ i = 1
    /\ start_date = NoDate
    /\ current_date = NoDate
    /\ processed = <<>>
    /\ totals = ZeroTotals
    /\ balance = ZeroBalance
    /\ caller = "direct"
    /\ NoTool
    /\ trace = <<>>
    /\ ExtIdle

\* the decay factors, the pmc dict and the empty defaultdict
CalcBegin ==
    /\ pc = "begin"
    /\ IF ctl_days = 0 \/ atl_days = 0
       THEN /\ pc' = "raised"
            /\ exc' = "ZeroDivisionError"
            /\ UNCHANGED <<ctl_decay, atl_decay, ctl_factor, atl_factor>>
       ELSE /\ pc' = "aggregate"
            /\ exc' = exc
            /\ ctl_decay' = Decay(ctl_days)
            /\ atl_decay' = Decay(atl_days)
            /\ ctl_factor' = Factor(Decay(ctl_days))
            /\ atl_factor' = Factor(Decay(atl_days))
    /\ pmc' = ZeroPmc
    /\ daily_strain' = EmptyDict
    /\ i' = 1
    /\ UNCHANGED <<activities, as_of_date, ctl_days, atl_days, start_date,
                   current_date, processed, totals, balance>>
    /\ UNCHANGED toolVars
    /\ UNCHANGED extVars
    /\ trace' = <<>>

\* one pass of "for activity in activities"
AggregateActivity ==
    /\ pc = "aggregate"
    /\ i <= Len(activities)
    /\ LET r == AggregateStep(daily_strain, activities[i])
       IN  /\ daily_strain' = r.daily
           /\ exc' = r.exc
           /\ pc' = IF r.exc = "none" THEN "aggregate" ELSE "raised"
    /\ i' = i + 1
    /\ UNCHANGED <<activities, as_of_date, ctl_days, atl_days, ctl_decay,
                   atl_decay, ctl_factor, atl_factor, pmc, start_date,
                   current_date, processed, totals, balance>>
    /\ UNCHANGED toolVars
    /\ UNCHANGED extVars
    /\ UNCHANGED trace

\* "if activities: ... else: ..." and current_date = start_date
ComputeStart ==
    /\ pc = "aggregate"
    /\ i > Len(activities)
    /\ LET st == StartOf(activities, daily_strain, as_of_date)
       IN  /\ exc' = st.exc
           /\ pc' = IF st.exc = "none" THEN "loop" ELSE "raised"
           /\ start_date' = IF st.exc = "none" THEN st.dt ELSE start_date
           /\ current_date' = IF st.exc = "none" THEN st.dt ELSE current_date
    /\ UNCHANGED <<activities, as_of_date, ctl_days, atl_days, ctl_decay,
                   atl_decay, ctl_factor, atl_factor, pmc, daily_strain, i,
                   processed, totals, balance>>
    /\ UNCHANGED toolVars
    /\ UNCHANGED extVars
    /\ UNCHANGED trace

\* one pass of "while current_date <= as_of_date"
DayLoop ==
    /\ pc = "loop"
    /\ LoopCond(current_date, as_of_date)
    /\ LET key == Strftime(current_date)
           load == Lookup(daily_strain, key)
       IN  /\ pmc' = DayStep(pmc, load, ctl_decay, ctl_factor,
                             atl_decay, atl_factor)
           /\ daily_strain' = Enter(daily_strain, key, load)
           /\ processed' = Append(processed,
                                  [day |-> current_date.day, load |-> load])
    /\ current_date' = AddDays(current_date, 1)
    /\ UNCHANGED <<activities, as_of_date, ctl_days, atl_days, pc, exc,
                   ctl_decay, atl_decay, ctl_factor, atl_factor, i,
                   start_date, totals, balance>>
    /\ UNCHANGED toolVars
    /\ UNCHANGED extVars
    /\ trace' = Append(trace, pmc')

\* the loop is left: tsb of every system, return pmc
ComputeTsb ==
    /\ pc = "loop"
    /\ ~LoopCond(current_date, as_of_date)
    /\ pmc' = WithTsb(pmc)
    /\ pc' = "done"
    /\ UNCHANGED <<activities, as_of_date, ctl_days, atl_days, exc,
                   ctl_decay, atl_decay, ctl_factor, atl_factor,
                   daily_strain, i, start_date, current_date, processed,
                   totals, balance>>
    /\ UNCHANGED toolVars
    /\ UNCHANGED extVars
    /\ UNCHANGED trace

-----------------------------------------------------------------------------
\* A call of _calculate_energy_balance, statement by statement.

InitBalance ==
    /\ activities \in ListsUpTo(BalActivities, MaxBalActs)
    /\ as_of_date = NoDate
    /\ ctl_days = DefaultCtlDays /\ atl_days = DefaultAtlDays
    /\ pc = "bal_begin"
    /\ exc = "none"
    /\ ctl_decay = 0 /\ atl_decay = 0 /\ ctl_factor = 0 /\ atl_factor = 0
    /\ pmc = ZeroPmc
    /\ daily_strain = EmptyDict
    /\ i = 1
    /\ start_date = NoDate
    /\ current_date = NoDate
    /\ processed = <<>>
    /\ totals = ZeroTotals
    /\ balance = ZeroBalance
    /\ caller = "direct"
    /\ NoTool
    /\ trace = <<>>
    /\ ExtIdle

\* totals = {...: 0.0}
BalanceBegin ==
    /\ pc = "bal_begin"
    /\ totals' = ZeroTotals
    /\ i' = 1
    /\ pc' = "bal_sum"
    /\ UNCHANGED <<activities, as_of_date, ctl_days, atl_days, exc,
                   ctl_decay, atl_decay, ctl_factor, atl_factor, pmc,
                   daily_strain, start_date, current_date, processed,
                   balance>>
    /\ UNCHANGED toolVars
    /\ UNCHANGED extVars
    /\ UNCHANGED trace

\* one pass of "for activity in activities"
BalanceAccumulate ==
    /\ pc = "bal_sum"
    /\ i <= Len(activities)
    /\ LET r == AddTotals(totals, activities[i])
       IN  /\ totals' = r.totals
           /\ exc' = r.exc
           /\ pc' = IF r.exc = "none" THEN "bal_sum" ELSE "bal_raised"
    /\ i' = i + 1
    /\ UNCHANGED <<activities, as_of_date, ctl_days, atl_days, ctl_decay,
                   atl_decay, ctl_factor, atl_factor, pmc, daily_strain,
                   start_date, current_date, processed, balance>>
    /\ UNCHANGED toolVars
    /\ UNCHANGED extVars
    /\ UNCHANGED trace

\* total_strain and the returned dict
BalanceReturn ==
    /\ pc = "bal_sum"
    /\ i > Len(activities)
    /\ balance' = BalanceOf(totals)
    /\ pc' = "bal_done"
    /\ UNCHANGED <<activities, as_of_date, ctl_days, atl_days, exc,
                   ctl_decay, atl_decay, ctl_factor, atl_factor, pmc,
                   daily_strain, i, start_date, current_date, processed,
                   totals>>
    /\ UNCHANGED toolVars
    /\ UNCHANGED extVars
    /\ UNCHANGED trace

-----------------------------------------------------------------------------
\* get_strain_pmc and _fetch_all_activities.

\* datetime.now(): a day after every activity day, not at midnight
Now == [day |-> MaxDay + 4, tod |-> 1]

\* min() of two datetimes
DtMin(a, b) == IF DtLeq(a, b) THEN a ELSE b

\* what make_intervals_request can return
ErrorResult == [k |-> "error", items |-> <<>>]
FalsyResult == [k |-> "falsy", items |-> <<>>]
ListResult(items) == [k |-> "list", items |-> items]
\* a dict one of whose values is a list
ContainerResult(items) == [k |-> "container", items |-> items]
\* a dict without a list value that has the key startTime
SingleResult(a) == [k |-> "single", items |-> <<[dict |-> TRUE, val |-> a]>>]
\* a non-empty dict without a list value and without name, startTime, distance
OtherResult == [k |-> "other", items |-> <<>>]

\* [item for item in value if isinstance(item, dict)]
DictsOf(items) ==
    LET F[n \in 0..Len(items)] ==
            IF n = 0 THEN <<>>
            ELSE IF items[n].dict THEN Append(F[n - 1], items[n].val)
                 ELSE F[n - 1]
    IN  F[Len(items)]

_parse_activities_from_result(result) ==
    CASE result.k = "list" -> DictsOf(result.items)
      [] result.k = "container" -> DictsOf(result.items)
      [] result.k = "single" -> <<result.items[1].val>>
      [] OTHER -> <<>>

\* mutant: the window is a day wider
WindowEndWide(cstart, cend) ==
    DtMin(AddDays(FromIsoFormat(cstart).dt, ChunkDays + 1),
          FromIsoFormat(cend).dt)

\* the window of the request that starts at current_start
WindowEnd(cstart, cend) ==
    DtMin(AddDays(FromIsoFormat(cstart).dt, ChunkDays), FromIsoFormat(cend).dt)

\* "while current_start < end_date"
FetchCond(cstart, cend) == StrLess(cstart, cend)

\* an activity of the day before as_of_date, as the API returns it
Fetched(asof, ss) ==
    Activity(<<Iso(asof.day - 1, 1), Iso(asof.day - 1, 1)>>, ss)

NotADict == [dict |-> FALSE, val |-> Activity(<<AbsentDate, AbsentDate>>,
                                              <<Absent, Absent, Absent>>)]

Results(asof) ==
    {ErrorResult, FalsyResult, OtherResult,
     ListResult(<<[dict |-> TRUE,
                   val |-> Fetched(asof, <<Num(One), Absent, Null>>)],
                  NotADict>>),
     ContainerResult(<<[dict |-> TRUE,
                        val |-> Fetched(asof, <<Null, Num(2 * One),
                                                Num(One)>>)]>>),
     SingleResult(Fetched(asof, <<Num(One), Num(One), Absent>>))}

\* a string parameter that is neither None nor ""
Truthy(param) == param.k \notin {"none", "empty"}

\* mutant: an error dict is taken for a result
IsErrorIgnored(result) == FALSE

\* isinstance(result, dict) and "error" in result
IsError(result) == result.k = "error"

\* the names of the tools and of the calculation each one invokes
StrainTool == "get_strain_pmc"
BalanceTool == "get_energy_system_balance"
Calculation(tool) ==
    IF tool = StrainTool THEN "_calculate_strain_pmc"
    ELSE "_calculate_energy_balance"

\* get_strain_pmc: start_date and end_date of the fetch
StrainRange(asof, hist) ==
    [start |-> Strftime(AddDays(asof, -hist)), end |-> Strftime(asof)]

\* get_energy_system_balance: the dates are rejected
DatesInvalid(sp, ep) ==
    \/ Truthy(sp) /\ ~FromIsoFormat(sp).ok
    \/ Truthy(ep) /\ ~FromIsoFormat(ep).ok

\* get_energy_system_balance: start_date and end_date of the fetch, for
\* parameters that are not rejected
BalanceRange(sp, ep, d) ==
    IF Truthy(sp) \/ Truthy(ep)
    THEN LET e == IF Truthy(ep) THEN ep ELSE Strftime(Now)
             b == IF Truthy(sp) THEN sp
                  ELSE Strftime(AddDays(FromIsoFormat(e).dt, -d))
         IN  [start |-> b, end |-> e]
    ELSE [start |-> Strftime(AddDays(Now, -(d - 1))), end |-> Strftime(Now)]

\* _format_energy_balance_response: days_in_period
DaysInPeriod(b, e) ==
    DeltaDays(FromIsoFormat(e).dt, FromIsoFormat(b).dt) + 1

AsOfParams == {NoneParam, Iso(MaxDay + 2, 0), LowStr}

HistoryDays ==
    {0, 1, DefaultHistoryDays, ChunkDays, ChunkDays + 1, ChunkDays + 2,
     2 * ChunkDays + 3}

DaysValues == {0, 1, 2, DefaultDays}

StartParams ==
    {NoneParam, Iso(MaxDay + 1, 0), Iso(MaxDay + 1 - ChunkDays, 0), LowStr}

EndParams == {NoneParam, Iso(MaxDay + 3, 0), LowStr}

InitStrainTool ==
    /\ caller = StrainTool
    /\ athlete_error \in BOOLEAN
    /\ as_of_param \in AsOfParams
    /\ history_days \in HistoryDays
    /\ \E tc \in {<<DefaultCtlDays, DefaultAtlDays>>, <<0, DefaultAtlDays>>} :
           ctl_days = tc[1] /\ atl_days = tc[2]
    /\ pc = "tool_begin"
    /\ activities = <<>>
    /\ as_of_date = NoDate
    /\ exc = "none"
    /\ ctl_decay = 0 /\ atl_decay = 0 /\ ctl_factor = 0 /\ atl_factor = 0
    /\ pmc = ZeroPmc
    /\ daily_strain = EmptyDict
    /\ i = 1
    /\ start_date = NoDate
    /\ current_date = NoDate
    /\ processed = <<>>
    /\ totals = ZeroTotals
    /\ balance = ZeroBalance
    /\ current_start = EmptyStr
    /\ end_date = EmptyStr
    /\ all_activities = <<>>
    /\ requests = <<>>
    /\ tool_ret = "none"
    /\ days = 0
    /\ start_param = NoneParam
    /\ end_param = NoneParam
    /\ fetch_start = EmptyStr
    /\ calls = <<>>
    /\ days_in_period = 0
    /\ trace = <<>>
    /\ ExtIdle

InitBalanceTool ==
    /\ caller = BalanceTool
    /\ athlete_error \in BOOLEAN
    /\ days \in DaysValues
    /\ start_param \in StartParams
    /\ end_param \in EndParams
    /\ as_of_param = NoneParam
    /\ history_days = 0
    /\ ctl_days = DefaultCtlDays /\ atl_days = DefaultAtlDays
    /\ pc = "tool_begin"
    /\ activities = <<>>
    /\ as_of_date = NoDate
    /\ exc = "none"
    /\ ctl_decay = 0 /\ atl_decay = 0 /\ ctl_factor = 0 /\ atl_factor = 0
    /\ pmc = ZeroPmc
    /\ daily_strain = EmptyDict
    /\ i = 1
    /\ start_date = NoDate
    /\ current_date = NoDate
    /\ processed = <<>>
    /\ totals = ZeroTotals
    /\ balance = ZeroBalance
    /\ current_start = EmptyStr
    /\ end_date = EmptyStr
    /\ all_activities = <<>>
    /\ requests = <<>>
    /\ tool_ret = "none"
    /\ fetch_start = EmptyStr
    /\ calls = <<>>
    /\ days_in_period = 0
    /\ trace = <<>>
    /\ ExtIdle

\* get_strain_pmc: athlete id, as_of_date and the date range of the fetch
ToolResolve ==
    /\ pc = "tool_begin"
    /\ caller = StrainTool
    /\ IF athlete_error
       THEN /\ tool_ret' = "athlete_error"
            /\ pc' = "tool_returned"
            /\ UNCHANGED <<as_of_date, current_start, end_date, fetch_start>>
       ELSE IF Truthy(as_of_param) /\ ~FromIsoFormat(as_of_param).ok
       THEN /\ tool_ret' = "date_error"
            /\ pc' = "tool_returned"
            /\ UNCHANGED <<as_of_date, current_start, end_date, fetch_start>>
       ELSE LET as_of_datetime ==
                    IF Truthy(as_of_param)
                    THEN FromIsoFormat(as_of_param).dt ELSE Now
                range == StrainRange(as_of_datetime, history_days)
            IN  /\ as_of_date' = as_of_datetime
                /\ fetch_start' = range.start
                /\ current_start' = range.start
                /\ end_date' = range.end
                /\ pc' = "fetch"
                /\ tool_ret' = tool_ret
    /\ all_activities' = <<>>
    /\ UNCHANGED <<activities, ctl_days, atl_days, exc, ctl_decay, atl_decay,
                   ctl_factor, atl_factor, pmc, daily_strain, i, start_date,
                   current_date, processed, totals, balance, caller,
                   athlete_error, as_of_param, history_days, requests, days,
                   start_param, end_param, calls, days_in_period, trace,
                   extVars>>

\* get_energy_system_balance: athlete id and the date range of the fetch
BalanceResolve ==
    /\ pc = "tool_begin"
    /\ caller = BalanceTool
    /\ IF athlete_error
       THEN /\ tool_ret' = "athlete_error"
            /\ pc' = "tool_returned"
            /\ UNCHANGED <<current_start, end_date, fetch_start>>
       ELSE IF DatesInvalid(start_param, end_param)
       THEN /\ tool_ret' = "date_error"
            /\ pc' = "tool_returned"
            /\ UNCHANGED <<current_start, end_date, fetch_start>>
       ELSE LET range == BalanceRange(start_param, end_param, days)
            IN  /\ fetch_start' = range.start
                /\ current_start' = range.start
                /\ end_date' = range.end
                /\ pc' = "fetch"
                /\ tool_ret' = tool_ret
    /\ all_activities' = <<>>
    /\ UNCHANGED <<activities, as_of_date, ctl_days, atl_days, exc,
                   ctl_decay, atl_decay, ctl_factor, atl_factor, pmc,
                   daily_strain, i, start_date, current_date, processed,
                   totals, balance, caller, athlete_error, as_of_param,
                   history_days, requests, days, start_param, end_param,
                   calls, days_in_period, trace, extVars>>

\* one pass of "while current_start < end_date": a request and its result;
\* the loop has no limit of its own, MaxRequests ends the exploration
FetchChunk ==
    /\ pc = "fetch"
    /\ FetchCond(current_start, end_date)
    /\ Len(requests) < MaxRequests
    /\ LET current_end_dt == WindowEnd(current_start, end_date)
       IN  \E result \in Results(as_of_date) :
               /\ requests' = Append(requests,
                                     [oldest |-> current_start,
                                      newest |-> Strftime(current_end_dt),
                                      got |-> result.k])
               /\ IF IsError(result)
                  THEN /\ tool_ret' = "fetch_error"
                       /\ pc' = "tool_returned"
                       /\ UNCHANGED <<all_activities, current_start>>
                  ELSE /\ all_activities' =
                              all_activities \o
                                  _parse_activities_from_result(result)
                       /\ current_start' =
                              Strftime(AddDays(current_end_dt, 1))
                       /\ UNCHANGED <<tool_ret, pc>>
    /\ UNCHANGED <<activities, as_of_date, ctl_days, atl_days, exc,
                   ctl_decay, atl_decay, ctl_factor, atl_factor, pmc,
                   daily_strain, i, start_date, current_date, processed,
                   totals, balance, caller, athlete_error, as_of_param,
                   history_days, end_date, days, start_param, end_param,
                   fetch_start, calls, days_in_period, trace, extVars>>

\* the fetch returns its list and the tool calls its calculation
FetchReturn ==
    /\ pc = "fetch"
    /\ ~FetchCond(current_start, end_date)
    /\ activities' = all_activities
    /\ calls' = Append(calls, Calculation(caller))
    /\ pc' = IF caller = StrainTool THEN "begin" ELSE "bal_begin"
    /\ UNCHANGED <<as_of_date, ctl_days, atl_days, exc, ctl_decay,
                   atl_decay, ctl_factor, atl_factor, pmc, daily_strain, i,
                   start_date, current_date, processed, totals, balance,
                   caller, athlete_error, as_of_param, history_days,
                   current_start, end_date, all_activities, requests,
                   tool_ret, days, start_param, end_param, fetch_start,
                   days_in_period, trace, extVars>>

\* _format_strain_pmc_response: the report is returned
ToolFormat ==
    /\ pc = "done"
    /\ caller = StrainTool
    /\ tool_ret' = "report"
    /\ pc' = "tool_returned"
    /\ UNCHANGED <<activities, as_of_date, ctl_days, atl_days, exc,
                   ctl_decay, atl_decay, ctl_factor, atl_factor, pmc,
                   daily_strain, i, start_date, current_date, processed,
                   totals, balance, caller, athlete_error, as_of_param,
                   history_days, current_start, end_date, all_activities,
                   requests, days, start_param, end_param, fetch_start,
                   calls, days_in_period, trace, extVars>>

\* an exception of _calculate_strain_pmc leaves the tool
ToolRaise ==
    /\ pc = "raised"
    /\ caller = StrainTool
    /\ tool_ret' = "exception"
    /\ pc' = "tool_raised"
    /\ UNCHANGED <<activities, as_of_date, ctl_days, atl_days, exc,
                   ctl_decay, atl_decay, ctl_factor, atl_factor, pmc,
                   daily_strain, i, start_date, current_date, processed,
                   totals, balance, caller, athlete_error, as_of_param,
                   history_days, current_start, end_date, all_activities,
                   requests, days, start_param, end_param, fetch_start,
                   calls, days_in_period, trace, extVars>>

\* _format_energy_balance_response: the report, headed by days_in_period,
\* is returned
BalanceFormat ==
    /\ pc = "bal_done"
    /\ caller = BalanceTool
    /\ days_in_period' = DaysInPeriod(fetch_start, end_date)
    /\ tool_ret' = "report"
    /\ pc' = "tool_returned"
    /\ UNCHANGED <<activities, as_of_date, ctl_days, atl_days, exc,
                   ctl_decay, atl_decay, ctl_factor, atl_factor, pmc,
                   daily_strain, i, start_date, current_date, processed,
                   totals, balance, caller, athlete_error, as_of_param,
                   history_days, current_start, end_date, all_activities,
                   requests, days, start_param, end_param, fetch_start,
                   calls, trace, extVars>>

-----------------------------------------------------------------------------
Init == InitPmc \/ InitBalance \/ InitStrainTool \/ InitBalanceTool

\* the tools alone
InitTools == InitStrainTool \/ InitBalanceTool

Next ==
    \/ ToolResolve
    \/ BalanceResolve
    \/ BalanceFormat
    \/ FetchChunk
    \/ FetchReturn
    \/ ToolFormat
    \/ ToolRaise
    \/ CalcBegin
    \/ AggregateActivity
    \/ ComputeStart
    \/ DayLoop
    \/ ComputeTsb
    \/ BalanceBegin
    \/ BalanceAccumulate
    \/ BalanceReturn

Spec == Init /\ [][Next]_vars

SpecTools == InitTools /\ [][Next]_vars

\* get_energy_system_balance with an end_date written without the dashes
InitBasicFormat ==
    /\ caller = BalanceTool
    /\ athlete_error = FALSE
    /\ days \in {1, 2}
    /\ start_param \in {NoneParam, Iso(MaxDay + 1, 0)}
    /\ end_param = Basic(MaxDay + 3)
    /\ as_of_param = NoneParam
    /\ history_days = 0
    /\ ctl_days = DefaultCtlDays /\ atl_days = DefaultAtlDays
    /\ pc = "tool_begin"
    /\ activities = <<>>
    /\ as_of_date = NoDate
    /\ exc = "none"
    /\ ctl_decay = 0 /\ atl_decay = 0 /\ ctl_factor = 0 /\ atl_factor = 0
    /\ pmc = ZeroPmc
    /\ daily_strain = EmptyDict
    /\ i = 1
    /\ start_date = NoDate
    /\ current_date = NoDate
    /\ processed = <<>>
    /\ totals = ZeroTotals
    /\ balance = ZeroBalance
    /\ current_start = EmptyStr
    /\ end_date = EmptyStr
    /\ all_activities = <<>>
    /\ requests = <<>>
    /\ tool_ret = "none"
    /\ fetch_start = EmptyStr
    /\ calls = <<>>
    /\ days_in_period = 0
    /\ trace = <<>>
    /\ ExtIdle

\* the tools with every date string their checks let through
InitFetch == InitTools \/ InitBasicFormat

SpecFetch == InitFetch /\ [][Next]_vars

\* <<ss_cp, ss_w_prime, ss_p_max>> of the activities of the report
ReportStrainShapes ==
    {<<Num(13 * One), Num(5 * One), Num(2 * One)>>,
     <<Num(15 * One), Num(4 * One), Num(One)>>,
     <<Num(One), Absent, Absent>>,
     <<Absent, Num(One), Absent>>,
     <<Absent, Absent, Num(One)>>}

ReportActivities ==
    {Activity(<<Iso(1, 1), AbsentDate>>, ss) : ss \in ReportStrainShapes}

\* get_energy_system_balance(days=2) when its one request has returned a
\* list of activities and the calculation is about to start
InitReport ==
    /\ caller = BalanceTool
    /\ athlete_error = FALSE
    /\ days = 2
    /\ start_param = NoneParam
    /\ end_param = NoneParam
    /\ as_of_param = NoneParam
    /\ history_days = 0
    /\ ctl_days = DefaultCtlDays /\ atl_days = DefaultAtlDays
    /\ pc = "bal_begin"
    /\ all_activities \in ListsUpTo(ReportActivities, MaxBalActs) \ {<<>>}
    /\ activities = all_activities
    /\ as_of_date = NoDate
    /\ exc = "none"
    /\ ctl_decay = 0 /\ atl_decay = 0 /\ ctl_factor = 0 /\ atl_factor = 0
    /\ pmc = ZeroPmc
    /\ daily_strain = EmptyDict
    /\ i = 1
    /\ start_date = NoDate
    /\ current_date = NoDate
    /\ processed = <<>>
    /\ totals = ZeroTotals
    /\ balance = ZeroBalance
    /\ LET range == BalanceRange(NoneParam, NoneParam, 2)
           current_end_dt == WindowEnd(range.start, range.end)
       IN  /\ fetch_start = range.start
           /\ end_date = range.end
           /\ current_start = Strftime(AddDays(current_end_dt, 1))
           /\ requests = <<[oldest |-> range.start,
                            newest |-> Strftime(current_end_dt),
                            got |-> "list"]>>
    /\ tool_ret = "none"
    /\ calls = <<Calculation(BalanceTool)>>
    /\ days_in_period = 0
    /\ trace = <<>>
    /\ ExtIdle

NextReport ==
    \/ BalanceBegin
    \/ BalanceAccumulate
    \/ BalanceReturn
    \/ BalanceFormat

SpecReport == InitReport /\ [][NextReport]_vars

\* the calls of _calculate_strain_pmc behind the decay properties: a load
\* on every day 1..n, or a load on day 1 only, as_of_date the last day
ConstantList(load, n) ==
    [d \in 1..n |-> Activity(<<Iso(d, 1), AbsentDate>>,
                             <<Num(load), Absent, Absent>>)]

SpikeList(load) ==
    <<Activity(<<Iso(1, 1), AbsentDate>>, <<Num(load), Absent, Absent>>)>>

DecayLoads == {0, One, 3 * One, 5 * One, 25 * HalfUlp}

SpikeLoads == {32 * One, 48 * One, FromInt(100)}

DecayConstants ==
    {<<DefaultCtlDays, DefaultAtlDays>>, <<DefaultAtlDays, 2>>, <<3, 1>>}

InitDecay ==
    /\ \/ \E load \in DecayLoads, n \in 1..MaxConstDays :
              /\ activities = ConstantList(load, n)
              /\ as_of_date = [day |-> n, tod |-> 0]
       \/ \E load \in SpikeLoads, n \in 1..MaxSpikeDays :
              /\ activities = SpikeList(load)
              /\ as_of_date = [day |-> n, tod |-> 0]
    /\ \E tc \in DecayConstants : ctl_days = tc[1] /\ atl_days = tc[2]
    /\ pc = "begin"
    /\ exc = "none"
    /\ ctl_decay = 0 /\ atl_decay = 0 /\ ctl_factor = 0 /\ atl_factor = 0
    /\ pmc = ZeroPmc
    /\ daily_strain = EmptyDict
    /\ i = 1
    /\ start_date = NoDate
    /\ current_date = NoDate
    /\ processed = <<>>
    /\ totals = ZeroTotals
    /\ balance = ZeroBalance
    /\ caller = "direct"
    /\ NoTool
    /\ trace = <<>>
    /\ ExtIdle

NextDecay ==
    \/ CalcBegin
    \/ AggregateActivity
    \/ ComputeStart
    \/ DayLoop
    \/ ComputeTsb

SpecDecay == InitDecay /\ [][NextDecay]_vars

-----------------------------------------------------------------------------
\* get_athlete_settings and get_power_curve.

\* longest sport-settings list
MaxSettings == 2

SettingsTool == "get_athlete_settings"
CurveTool == "get_power_curve"

\* mutant: the strings are compared as they are
LowerKept(s) == s

\* str.lower()
Lower(s) ==
    CASE s \in {"Ride", "RIDE"} -> "ride"
      [] s = "Run" -> "run"
      [] s = "VirtualRide" -> "virtualride"
      [] OTHER -> s

\* f"{value}" of a value taken with dict.get
Text(val) == IF val.k = "str" THEN val.s ELSE "None"

\* mutant: no dict is an error dict
HasErrorNever(r) == FALSE

\* isinstance(r, dict) and "error" in r
HasError(r) == r.k = "dict" /\ r.d["error"] # NoVal

\* any(t.lower() == sport_type.lower() for t in types): "true", "false",
\* or "raise" when an element that is not a string is reached first
RECURSIVE AnyLower(_, _, _)
AnyLower(items, n, sport) ==
    IF n > Len(items) THEN "false"
    ELSE IF items[n].k # "str" THEN "raise"
    ELSE IF Lower(items[n].s) = Lower(sport) THEN "true"
    ELSE AnyLower(items, n + 1, sport)

\* sport_setting.get("types", [])
TypesOf(d) == IF d["types"] = NoVal THEN ListVal(<<>>) ELSE d["types"]

\* the loop over the sport settings: the index of the entry it breaks on
\* (0 when it runs to the end), or raised
RECURSIVE FindSetting(_, _, _)
FindSetting(l, n, sport) ==
    IF n > Len(l) THEN [hit |-> 0, raised |-> FALSE]
    ELSE IF l[n].k = "dict" /\ TypesOf(l[n].d).k = "list"
    THEN LET m == AnyLower(TypesOf(l[n].d).items, 1, sport)
         IN  CASE m = "true" -> [hit |-> n, raised |-> FALSE]
               [] m = "raise" -> [hit |-> 0, raised |-> TRUE]
               [] OTHER -> FindSetting(l, n + 1, sport)
    ELSE FindSetting(l, n + 1, sport)

\* the athlete-level keys copied from athlete_result
AthleteLevel(ar) ==
    IF ar.k = "dict"
    THEN [key \in SettingKeys |->
             IF key \in AthleteKeys THEN ar.d[key] ELSE NoVal]
    ELSE EmptySettings

\* a.update(b)
Update(a, b) ==
    [key \in SettingKeys |-> IF b[key] # NoVal THEN b[key] ELSE a[key]]

\* merged_settings after the loop (the loop does not raise)
Merged(ssr, ar, sport) ==
    LET base == AthleteLevel(ar)
        hit == IF ssr.k = "list" THEN FindSetting(ssr.l, 1, sport).hit ELSE 0
    IN  IF hit > 0
        THEN [Update(base, ssr.l[hit].d) EXCEPT !["sport_type"] = Str(sport)]
        ELSE base

\* the last index of secs that holds sec
RECURSIVE LastIndex(_, _, _)
LastIndex(secs, sec, n) ==
    IF secs[n] = sec THEN n ELSE LastIndex(secs, sec, n - 1)

\* x[i] if i < len(x) else None
ItemOrNone(x, n) == IF n <= Len(x) THEN x[n] ELSE Null

\* power_curve_data built from the first entry of result["list"]
Extract(result) ==
    IF /\ result.k = "dict"
       /\ result.list.k = "list"
       /\ Len(result.list.items) > 0
       /\ result.list.items[1].k = "dict"
       /\ Len(result.list.items[1].secs) > 0
       /\ Len(result.list.items[1].watts) > 0
    THEN LET e == result.list.items[1]
         IN  [sec \in {e.secs[n] : n \in 1..Len(e.secs)} |->
                 [watts |-> ItemOrNone(e.watts,
                                       LastIndex(e.secs, sec, Len(e.secs))),
                  wkg |-> ItemOrNone(e.watts_per_kg,
                                     LastIndex(e.secs, sec, Len(e.secs)))]]
    ELSE EmptyCurve

\* the parameters and the responses
SportTypes == {"Ride", "ride", "Run"}

TypesLists ==
    {<<Str("Run")>>, <<Str("Ride"), Str("VirtualRide")>>, <<Str("RIDE")>>,
     <<NoneVal, Str("Ride")>>}

SettingEntries ==
    {JDict([EmptySettings EXCEPT !["types"] = ListVal(t),
                                 !["ftp"] = Str("270"),
                                 !["name"] = Str(Text(t[Len(t)]))]) :
         t \in TypesLists}
    \cup {JDict([EmptySettings EXCEPT !["types"] = ListVal(<<Str("ride")>>),
                                      !["ftp"] = Str("300"),
                                      !["sport_type"] = Str("Swim")]),
          JDict([EmptySettings EXCEPT !["types"] = OtherVal,
                                      !["ftp"] = Str("1")]),
          JDict([EmptySettings EXCEPT !["ftp"] = Str("5")]),
          JNone}

ErrorDicts ==
    {JDict([EmptySettings EXCEPT !["error"] = Str("true"),
                                 !["message"] = Str("Athlete not found")]),
     JDict([EmptySettings EXCEPT !["error"] = Str("true")])}

SportSettingsResults ==
    {JList(l) : l \in ListsUpTo(SettingEntries, MaxSettings)}
    \cup ErrorDicts
    \cup {JDict([EmptySettings EXCEPT !["ftp"] = Str("270")]), JNone}

AthleteResults ==
    ErrorDicts
    \cup {JDict([EmptySettings EXCEPT !["weight"] = Str("83.5"),
                                      !["name"] = Str("Test Athlete"),
                                      !["email"] = Str("a@b.c")]),
          JDict(EmptySettings), JNone}

CurveEntry(kind, secs, watts, wkg) ==
    [k |-> kind, secs |-> secs, watts |-> watts, watts_per_kg |-> wkg]

CurveEntries ==
    {CurveEntry("dict", secs, watts, wkg) :
         secs \in {<<>>, <<1>>, <<1, 5>>, <<5, 5>>},
         watts \in {<<>>, <<Num(3 * One)>>, <<Num(3 * One), Num(2 * One)>>},
         wkg \in {<<>>, <<Num(One)>>}}
    \cup {CurveEntry("other", <<>>, <<>>, <<>>)}

CurveResults ==
    {CurveJson("dict", NoVal, NoVal, ListVal(<<e>>)) : e \in CurveEntries}
    \cup {CurveJson("dict", NoVal, NoVal,
                    ListVal(<<CurveEntry("dict", <<1>>, <<Num(One)>>, <<>>),
                              CurveEntry("dict", <<5>>, <<Num(One)>>,
                                         <<>>)>>)),
          CurveJson("dict", NoVal, NoVal, ListVal(<<>>)),
          CurveJson("dict", NoVal, NoVal, OtherVal),
          CurveJson("dict", NoVal, NoVal, NoVal),
          CurveJson("dict", Str("true"), Str("API Key invalid"), NoVal),
          CurveJson("dict", Str("true"), NoVal,
                    ListVal(<<CurveEntry("dict", <<1>>, <<Num(One)>>,
                                         <<>>)>>)),
          CurveJson("list", NoVal, NoVal, NoVal),
          NoCurve}

CurveParams == [type : {"Ride", "Run"}, curves : {"42d", "all"}]

\* isinstance(result, dict) and "error" in result, for get_power_curve
CurveError(result) == result.k = "dict" /\ result.error # NoVal

calcVars == <<activities, as_of_date, ctl_days, atl_days, exc, ctl_decay,
              atl_decay, ctl_factor, atl_factor, pmc, daily_strain, i,
              start_date, current_date, processed, totals, balance>>

\* no calculation and no fetch is running
CalcIdle ==
    /\ activities = <<>>
    /\ as_of_date = NoDate
    /\ ctl_days = DefaultCtlDays /\ atl_days = DefaultAtlDays
    /\ exc = "none"
    /\ ctl_decay = 0 /\ atl_decay = 0 /\ ctl_factor = 0 /\ atl_factor = 0
    /\ pmc = ZeroPmc
    /\ daily_strain = EmptyDict
    /\ i = 1
    /\ start_date = NoDate
    /\ current_date = NoDate
    /\ processed = <<>>
    /\ totals = ZeroTotals
    /\ balance = ZeroBalance
    /\ as_of_param = NoneParam
    /\ history_days = 0
    /\ current_start = EmptyStr
    /\ end_date = EmptyStr
    /\ all_activities = <<>>
    /\ requests = <<>>
    /\ tool_ret = "none"
    /\ days = 0
    /\ start_param = NoneParam
    /\ end_param = NoneParam
    /\ fetch_start = EmptyStr
    /\ calls = <<>>
    /\ days_in_period = 0
    /\ trace = <<>>
    /\ tasks = <<>>
    /\ kept = <<>>

InitSettings ==
    /\ caller = SettingsTool
    /\ athlete_error \in BOOLEAN
    /\ sport_type \in SportTypes
    /\ pc = "settings_begin"
    /\ CalcIdle
    /\ params = NoParams
    /\ sport_settings_result = JNone
    /\ athlete_result = JNone
    /\ merged_settings = EmptySettings
    /\ curve_result = NoCurve
    /\ power_curve_data = EmptyCurve
    /\ urls = <<>>
    /\ returned = NotReturned

InitCurve ==
    /\ caller = CurveTool
    /\ athlete_error \in BOOLEAN
    /\ params \in CurveParams
    /\ pc = "curve_begin"
    /\ CalcIdle
    /\ sport_type = ""
    /\ sport_settings_result = JNone
    /\ athlete_result = JNone
    /\ merged_settings = EmptySettings
    /\ curve_result = NoCurve
    /\ power_curve_data = EmptyCurve
    /\ urls = <<>>
    /\ returned = NotReturned

\* resolve_athlete_id of either tool
EndpointResolve ==
    /\ pc \in {"settings_begin", "curve_begin"}
    /\ IF athlete_error
       THEN /\ returned' = [kind |-> "athlete_error", prefix |-> "",
                            message |-> ""]
            /\ pc' = "endpoint_returned"
       ELSE /\ returned' = returned
            /\ pc' = IF caller = SettingsTool THEN "settings_request"
                     ELSE "curve_request"
    /\ UNCHANGED <<calcVars, toolVars, trace, tasks, kept, sport_type,
                   params, sport_settings_result, athlete_result,
                   merged_settings, curve_result, power_curve_data, urls>>

\* get_athlete_settings: the sport-settings request and its error check
SettingsRequest ==
    /\ pc = "settings_request"
    /\ \E r \in SportSettingsResults :
          /\ sport_settings_result' = r
          /\ urls' = Append(urls, "sport-settings")
          /\ IF HasError(r)
             THEN /\ returned' =
                         [kind |-> "error_text",
                          prefix |-> "Error fetching athlete settings: ",
                          message |-> Text(r.d["message"])]
                  /\ pc' = "endpoint_returned"
             ELSE /\ returned' = returned
                  /\ pc' = "athlete_request"
    /\ UNCHANGED <<calcVars, toolVars, trace, tasks, kept, sport_type,
                   params, athlete_result, merged_settings, curve_result,
                   power_curve_data>>

\* get_athlete_settings: the athlete request, the merge and the return
AthleteRequest ==
    /\ pc = "athlete_request"
    /\ \E r \in AthleteResults :
          LET ar == IF HasError(r) THEN JDict(EmptySettings) ELSE r
              raised == /\ sport_settings_result.k = "list"
                        /\ FindSetting(sport_settings_result.l, 1,
                                       sport_type).raised
              merged == Merged(sport_settings_result, ar, sport_type)
          IN  /\ athlete_result' = ar
              /\ urls' = Append(urls, "athlete")
              /\ IF raised
                 THEN /\ merged_settings' = AthleteLevel(ar)
                      /\ returned' = [kind |-> "raised", prefix |-> "",
                                      message |-> "AttributeError"]
                 ELSE /\ merged_settings' = merged
                      /\ returned' =
                             [kind |-> IF merged = EmptySettings
                                       THEN "not_found" ELSE "formatted",
                              prefix |-> "", message |-> ""]
    /\ pc' = "endpoint_returned"
    /\ UNCHANGED <<calcVars, toolVars, trace, tasks, kept, sport_type,
                   params, sport_settings_result, curve_result,
                   power_curve_data>>

\* get_power_curve: the request, its error check, the extraction and the
\* return
CurveRequest ==
    /\ pc = "curve_request"
    /\ \E r \in CurveResults :
          /\ curve_result' = r
          /\ urls' = Append(urls, "power-curves")
          /\ IF CurveError(r)
             THEN /\ returned' =
                         [kind |-> "error_text",
                          prefix |-> "Error fetching power curve: ",
                          message |-> Text(r.message)]
                  /\ power_curve_data' = power_curve_data
             ELSE /\ returned' = [kind |-> "formatted", prefix |-> "",
                                  message |-> ""]
                  /\ power_curve_data' = Extract(r)
    /\ pc' = "endpoint_returned"
    /\ UNCHANGED <<calcVars, toolVars, trace, tasks, kept, sport_type,
                   params, sport_settings_result, athlete_result,
                   merged_settings>>

InitEndpoints == InitSettings \/ InitCurve

NextEndpoints ==
    \/ EndpointResolve
    \/ SettingsRequest
    \/ AthleteRequest
    \/ CurveRequest

SpecEndpoints == InitEndpoints /\ [][NextEndpoints]_vars

-----------------------------------------------------------------------------
\* Tool invocations that run concurrently: each is a coroutine with its own
\* locals, and the event loop switches between them at the chunk requests.

Tasks == {1, 2}

\* what a finished calculation leaves behind: its daily_strain and totals
NothingKept == [daily |-> EmptyDict, totals |-> ZeroTotals]

\* mutant: daily_strain outlives the call
NewDailyStrainKept(left) == left

\* daily_strain = defaultdict(...): a new dict in every call, whatever an
\* earlier call left
NewDailyStrain(left) == EmptyDict

\* totals = {...}: a new dict in every call
NewTotals(left) == ZeroTotals

\* _calculate_strain_pmc as a call: [exc, pmc, daily], daily being the
\* daily_strain of the call when it ends
StrainCall(left, acts, asof, cdays, adays) ==
    LET agg == AggregateAll(acts, 1, NewDailyStrain(left))
        st == StartOf(acts, agg.daily, asof)
    IN  IF agg.exc # "none"
        THEN [exc |-> agg.exc, pmc |-> ZeroPmc, daily |-> agg.daily]
        ELSE IF st.exc # "none"
        THEN [exc |-> st.exc, pmc |-> ZeroPmc, daily |-> agg.daily]
        ELSE LET r == DayLoopAll([pmc |-> ZeroPmc, days |-> <<>>,
                                  daily |-> agg.daily, cur |-> st.dt],
                                 asof, Decay(cdays), Factor(Decay(cdays)),
                                 Decay(adays), Factor(Decay(adays)))
             IN  [exc |-> "none", pmc |-> WithTsb(r.pmc), daily |-> r.daily]

\* _calculate_energy_balance as a call: [exc, balance, totals]
BalanceCall(left, acts) ==
    LET r == SumAll(acts, 1, NewTotals(left))
    IN  [exc |-> r.exc,
         balance |-> IF r.exc # "none" THEN ZeroBalance
                     ELSE BalanceOf(r.totals),
         totals |-> r.totals]

NoReturn ==
    [kind |-> "none", pmc |-> ZeroPmc, balance |-> ZeroBalance, count |-> 0]

\* the locals of an invocation before it starts
Invocation(tool, n) ==
    [tool |-> tool, n |-> n, pc |-> "begin", as_of_datetime |-> Now,
     current_start |-> EmptyStr, end_date |-> EmptyStr,
     all_activities |-> <<>>, passed |-> <<>>, got |-> <<>>,
     ret |-> NoReturn]

\* get_strain_pmc(history_days = n), get_energy_system_balance(days = n)
Invocations ==
    {Invocation(StrainTool, 1), Invocation(StrainTool, ChunkDays + 2),
     Invocation(BalanceTool, 2)}

\* the responses of the chunk requests: the error dict and the responses
\* that carry an activity
Responses(asof) == Results(asof) \ {FalsyResult, OtherResult}

InitConcurrent ==
    /\ tasks \in [Tasks -> Invocations]
    /\ kept = NothingKept
    /\ caller = "concurrent"
    /\ athlete_error = FALSE
    /\ pc = "concurrent"
    /\ activities = <<>>
    /\ as_of_date = NoDate
    /\ ctl_days = DefaultCtlDays /\ atl_days = DefaultAtlDays
    /\ exc = "none"
    /\ ctl_decay = 0 /\ atl_decay = 0 /\ ctl_factor = 0 /\ atl_factor = 0
    /\ pmc = ZeroPmc
    /\ daily_strain = EmptyDict
    /\ i = 1
    /\ start_date = NoDate
    /\ current_date = NoDate
    /\ processed = <<>>
    /\ totals = ZeroTotals
    /\ balance = ZeroBalance
    /\ as_of_param = NoneParam
    /\ history_days = 0
    /\ current_start = EmptyStr
    /\ end_date = EmptyStr
    /\ all_activities = <<>>
    /\ requests = <<>>
    /\ tool_ret = "none"
    /\ days = 0
    /\ start_param = NoneParam
    /\ end_param = NoneParam
    /\ fetch_start = EmptyStr
    /\ calls = <<>>
    /\ days_in_period = 0
    /\ trace = <<>>
    /\ sport_type = ""
    /\ params = NoParams
    /\ sport_settings_result = JNone
    /\ athlete_result = JNone
    /\ merged_settings = EmptySettings
    /\ curve_result = NoCurve
    /\ power_curve_data = EmptyCurve
    /\ urls = <<>>
    /\ returned = NotReturned

\* the variables the concurrent invocations leave alone
restVars == <<calcVars, pc, toolVars, trace, sport_type, params,
              sport_settings_result, athlete_result, merged_settings,
              curve_result, power_curve_data, urls, returned>>

\* the tool up to its first request: the date range of the fetch
TaskResolve(t) ==
    /\ tasks[t].pc = "begin"
    /\ LET range == IF tasks[t].tool = StrainTool
                    THEN StrainRange(tasks[t].as_of_datetime, tasks[t].n)
                    ELSE BalanceRange(NoneParam, NoneParam, tasks[t].n)
       IN  tasks' = [tasks EXCEPT ![t].pc = "fetch",
                                  ![t].current_start = range.start,
                                  ![t].end_date = range.end]
    /\ UNCHANGED <<kept, restVars>>

\* the response of a chunk request arrives and the loop goes on to the
\* next request
TaskChunk(t) ==
    /\ tasks[t].pc = "fetch"
    /\ FetchCond(tasks[t].current_start, tasks[t].end_date)
    /\ \E result \in Responses(tasks[t].as_of_datetime) :
          tasks' =
              IF IsError(result)
              THEN [tasks EXCEPT
                        ![t].got = Append(@, result),
                        ![t].pc = "returned",
                        ![t].ret = [NoReturn EXCEPT !.kind = "fetch_error"]]
              ELSE [tasks EXCEPT
                        ![t].got = Append(@, result),
                        ![t].all_activities =
                            @ \o _parse_activities_from_result(result),
                        ![t].current_start =
                            Strftime(AddDays(WindowEnd(tasks[t].current_start,
                                                       tasks[t].end_date),
                                             1))]
    /\ UNCHANGED <<kept, restVars>>

\* the fetch is over: the calculation, the report and the return, with no
\* request in between
TaskFinish(t) ==
    /\ tasks[t].pc = "fetch"
    /\ ~FetchCond(tasks[t].current_start, tasks[t].end_date)
    /\ IF tasks[t].tool = StrainTool
       THEN LET r == StrainCall(kept.daily, tasks[t].all_activities,
                                tasks[t].as_of_datetime, DefaultCtlDays,
                                DefaultAtlDays)
            IN  /\ tasks' =
                       [tasks EXCEPT
                            ![t].pc = "returned",
                            ![t].passed = tasks[t].all_activities,
                            ![t].ret =
                                [NoReturn EXCEPT
                                     !.kind = IF r.exc = "none" THEN "report"
                                              ELSE r.exc,
                                     !.pmc = r.pmc]]
                /\ kept' = [kept EXCEPT !.daily = r.daily]
       ELSE LET r == BalanceCall(kept.totals, tasks[t].all_activities)
            IN  /\ tasks' =
                       [tasks EXCEPT
                            ![t].pc = "returned",
                            ![t].passed = tasks[t].all_activities,
                            ![t].ret =
                                [NoReturn EXCEPT
                                     !.kind = IF r.exc = "none" THEN "report"
                                              ELSE r.exc,
                                     !.balance = r.balance,
                                     !.count =
                                         Len(tasks[t].all_activities)]]
                /\ kept' = [kept EXCEPT !.totals = r.totals]
    /\ UNCHANGED restVars

NextConcurrent ==
    \E t \in Tasks :
        \/ TaskResolve(t)
        \/ TaskChunk(t)
        \/ TaskFinish(t)

SpecConcurrent == InitConcurrent /\ [][NextConcurrent]_vars

-----------------------------------------------------------------------------
\* the statement-by-statement run ends as the function composed of the
\* same loop bodies does
RunMatchesFunction ==
    pc \in {"done", "raised"} =>
        LET r == CalcStrainPmc(activities, as_of_date, ctl_days, atl_days)
        IN  /\ r.exc = exc
            /\ pc = "done" => r.pmc = pmc /\ r.days = processed

-----------------------------------------------------------------------------
\* Reference definitions used by the properties: they read the activity
\* list directly and do not go through the aggregation dict.

\* the date field an activity is read by: start_date, else startTime
DateField(a) == IF a.start_date.k # "absent" THEN a.start_date ELSE a.startTime

\* the first ten characters of the activity's date field name day d
DatedOn(a, d) == DateField(a).k = "iso" /\ DateField(a).d = d

IsoDays(acts) ==
    {DateField(acts[n]).d : n \in {m \in 1..Len(acts) : DateField(acts[m]).k = "iso"}}

MinDay(S) == CHOOSE d \in S : \A e \in S : d <= e

\* a strain field as a number: absent and null are zero
FieldNumber(val) == IF val.k = "num" THEN val.v ELSE 0

StrainField(a, sys) ==
    CASE sys = "sscp" -> a.ss_cp
      [] sys = "ssw" -> a.ss_w_prime
      [] OTHER -> a.ss_p_max

\* the float sum, in list order, of one system's strain over the
\* activities dated on day d
RECURSIVE DaySum(_, _, _, _)
DaySum(acts, n, d, sys) ==
    IF n = 0 THEN 0
    ELSE IF DatedOn(acts[n], d)
         THEN FAdd(DaySum(acts, n - 1, d, sys),
                   FieldNumber(StrainField(acts[n], sys)))
         ELSE DaySum(acts, n - 1, d, sys)

\* the recurrence v := v * a + load * (1 - a) over the days d..last,
\* started from v
RECURSIVE Ewma(_, _, _, _, _, _)
Ewma(acts, sys, d, last, a, v) ==
    LET pass(day, val) ==
            IF day > last THEN val
            ELSE Ewma(acts, sys, day + 1, last, a,
                      FAdd(FMul(val, a),
                           FMul(DaySum(acts, Len(acts), day, sys),
                                FSub(One, a))))
    IN  CHOOSE r \in {pass(day, val) : day \in {d}, val \in {v}} : TRUE

\* the first day of the series
FirstDay ==
    IF Len(activities) = 0 THEN as_of_date.day - FallbackDays
    ELSE MinDay(IsoDays(activities))

\* as_of_date lies before the earliest activity date
AsOfBeforeEarliest ==
    /\ IsoDays(activities) # {}
    /\ as_of_date.day < MinDay(IsoDays(activities))

Max0(n) == IF n > 0 THEN n ELSE 0

-----------------------------------------------------------------------------
\* C1 (as stated): whenever the function returns for a non-empty list, the
\* day loop has run exactly (as_of_date - start_date).days + 1 times.
C1_Original ==
    (pc = "done" /\ Len(activities) > 0) =>
        Len(processed) = DeltaDays(as_of_date, start_date) + 1

\* C1 (amended): gap-fill completeness.  Whenever the function returns for
\* a non-empty list, start_date is the earliest activity date, the day loop
\* has run max(0, (as_of_date - start_date).days + 1) times, its passes are
\* the consecutive calendar days from start_date on, and a day on which no
\* activity is dated is processed with load zero for all three systems.
C1_GapFill ==
    (pc = "done" /\ Len(activities) > 0) =>
        /\ start_date = [day |-> MinDay(IsoDays(activities)), tod |-> 0]
        /\ Len(processed) = Max0(DeltaDays(as_of_date, start_date) + 1)
        /\ \A j \in 1..Len(processed) :
              /\ processed[j].day = start_date.day + j - 1
              /\ (\A n \in 1..Len(activities) :
                      ~DatedOn(activities[n], processed[j].day))
                   => processed[j].load = ZeroLoad

C1_Witness ==
    /\ pc = "done"
    /\ Len(activities) > 0
    /\ Len(processed) >= 3
    /\ \E j \in 1..Len(processed) : processed[j].load = ZeroLoad
    /\ \E j \in 1..Len(processed) : processed[j].load # ZeroLoad

\* C2: the returned ctl and atl of every system are the recurrence
\* v := v * a + load * (1 - a) started from 0 and applied once per calendar
\* day, ascending, from the first day of the series through as_of_date,
\* with that day's summed strain of that system as load and decay factors
\* computed once; tsb is the final ctl minus the final atl.
C2_Recurrence ==
    pc = "done" =>
        \A sys \in Systems :
            /\ pmc[sys].ctl = Ewma(activities, sys, FirstDay, as_of_date.day,
                                   FExp(NegInverse(ctl_days)), 0)
            /\ pmc[sys].atl = Ewma(activities, sys, FirstDay, as_of_date.day,
                                   FExp(NegInverse(atl_days)), 0)
            /\ pmc[sys].tsb = FSub(pmc[sys].ctl, pmc[sys].atl)

C2_Witness ==
    /\ pc = "done"
    /\ Len(processed) >= 2
    /\ pmc.sscp.ctl > 0
    /\ pmc.ssw.ctl > pmc.sscp.ctl
    /\ pmc.sspmax.tsb < 0

\* C3 (as stated): with valid time constants, a list in which some or all
\* activities have a missing, empty, null or non-ISO date never makes the
\* function raise, and the result is the PMC of the remaining activities.
C3_Original ==
    (ctl_days > 0 /\ atl_days > 0) =>
        /\ pc # "raised"
        /\ pc = "done" =>
              pmc = CalcStrainPmc(
                        SelectSeq(activities,
                                  LAMBDA a : DateField(a).k = "iso"),
                        as_of_date, ctl_days, atl_days).pmc

\* C4 (as stated): when as_of_date is earlier than the earliest activity
\* date, exactly one decay update is applied, for the day as_of_date.
C4_Original ==
    (pc = "done" /\ AsOfBeforeEarliest) =>
        /\ Len(processed) = 1
        /\ processed[1].day = as_of_date.day

\* C4 (amended): when as_of_date is earlier than the earliest activity
\* date, the day loop does not run at all: no decay update is applied and
\* every ctl, atl and tsb returned is 0.
C4_NoUpdate ==
    (pc = "done" /\ AsOfBeforeEarliest) =>
        /\ processed = <<>>
        /\ pmc = ZeroPmc

C4_Witness ==
    /\ pc = "done"
    /\ AsOfBeforeEarliest
    /\ \E n \in 1..Len(activities) : FieldNumber(activities[n].ss_cp) > 0

\* C5: conservation of daily load.  The load triple used by the decay
\* update of a day equals, per system, the sum of that system's strain
\* field over exactly the activities whose date is that day.
C5_Conservation ==
    \A j \in 1..Len(processed) :
        \A sys \in Systems :
            processed[j].load[sys] =
                DaySum(activities, Len(activities), processed[j].day, sys)

\* two activities of one day are summed, in a series of several days
C5_Witness ==
    /\ pc = "done"
    /\ Len(processed) >= 2
    /\ \E j \in 1..Len(processed) : processed[j].load.sscp = 2 * One

\* a call with an empty activity list and positive time constants
EmptyCall == Len(activities) = 0 /\ ctl_days > 0 /\ atl_days > 0

\* the tool has gone past the fetch and has stopped
ToolStoppedAfterFetch ==
    /\ caller = StrainTool
    /\ tool_ret \notin {"none", "athlete_error", "date_error", "fetch_error"}

\* C6: an empty activity list is not an error.  With positive time
\* constants _calculate_strain_pmc raises nothing, its day loop runs over
\* as_of_date - 90 days .. as_of_date inclusive, every day with an all-zero
\* load, and ctl = atl = tsb = 0 for the three systems; get_strain_pmc,
\* when the fetch yields no activity, returns the report.
C6_EmptyList ==
    EmptyCall =>
        /\ exc = "none"
        /\ pc \notin {"raised", "tool_raised"}
        /\ pc = "done" =>
               /\ Len(processed) = FallbackDays + 1
               /\ \A j \in 1..Len(processed) :
                      /\ processed[j].day =
                             as_of_date.day - FallbackDays + j - 1
                      /\ processed[j].load = ZeroLoad
               /\ pmc = ZeroPmc
        /\ ToolStoppedAfterFetch => tool_ret = "report" /\ pmc = ZeroPmc

\* the tool made a request, got no activity and returned the report
C6_Witness ==
    /\ EmptyCall
    /\ caller = StrainTool
    /\ pc = "tool_returned"
    /\ tool_ret = "report"
    /\ Len(requests) >= 1
    /\ Len(processed) = FallbackDays + 1

\* C7 (as stated): zero or negative time constants never make the function
\* raise.
C7_Original ==
    (ctl_days <= 0 \/ atl_days <= 0) => exc # "ZeroDivisionError"

-----------------------------------------------------------------------------
\* Reference definitions for the balance properties.

\* the float sum, in list order, of one system's strain over the first n
\* activities
RECURSIVE ListSum(_, _, _)
ListSum(acts, n, sys) ==
    IF n = 0 THEN 0
    ELSE FAdd(ListSum(acts, n - 1, sys),
              FieldNumber(StrainField(acts[n], sys)))

\* the sum of the three percentages as a real number
PercentSum ==
    balance.aerobic_pct + balance.glycolytic_pct + balance.neuromuscular_pct

\* 100.0, which is a float
Hundred == 100 * One

BalancePairs ==
    {<<balance.aerobic_pct, balance.aerobic_total>>,
     <<balance.glycolytic_pct, balance.glycolytic_total>>,
     <<balance.neuromuscular_pct, balance.neuromuscular_total>>}

\* the totals of the result are the list sums, and total_strain is their sum
TotalsAreSums ==
    /\ balance.aerobic_total = ListSum(activities, Len(activities), "sscp")
    /\ balance.glycolytic_total = ListSum(activities, Len(activities), "ssw")
    /\ balance.neuromuscular_total =
           ListSum(activities, Len(activities), "sspmax")
    /\ balance.total_strain =
           FAdd(FAdd(balance.aerobic_total, balance.glycolytic_total),
                balance.neuromuscular_total)

\* bounds of the rounding error, in units: of one percentage (two rounded
\* operations) and of the sum of the three (total_strain is itself a
\* rounded sum)
PercentTolerance == (300 * One) \div Pow2(MantBits) + 52
PercentSumTolerance == (500 * One) \div Pow2(MantBits) + 156

\* C8 (as stated): the totals are the list sums and total_strain their sum;
\* with total_strain = 0 every total and percentage is 0; otherwise each
\* percentage is 100 * system_total / total_strain and the three sum to 100.
C8_Original ==
    pc = "bal_done" =>
        IF SumValues(totals) = 0 THEN balance = ZeroBalance
        ELSE /\ TotalsAreSums
             /\ \A pr \in BalancePairs :
                    pr[1] * balance.total_strain = Hundred * pr[2]
             /\ PercentSum = Hundred

\* C8 (amended): as stated, except that the percentages are floats: each
\* is (system_total / total_strain) * 100 with both operations rounded, so
\* it equals 100 * system_total / total_strain, and the three sum to 100,
\* only up to floating-point rounding error.
C8_Balance ==
    pc = "bal_done" =>
        IF SumValues(totals) = 0 THEN balance = ZeroBalance
        ELSE /\ TotalsAreSums
             /\ \A pr \in BalancePairs :
                    /\ pr[1] = FMul(FDiv(pr[2], balance.total_strain), Hundred)
                    /\ Abs(pr[1] * balance.total_strain - Hundred * pr[2])
                           <= PercentTolerance * balance.total_strain
             /\ Abs(PercentSum - Hundred) <= PercentSumTolerance

C8_Witness ==
    /\ pc = "bal_done"
    /\ balance.total_strain # 0
    /\ PercentSum # Hundred
    /\ \A pr \in BalancePairs : pr[1] > 0

Permuted(acts, perm) == [n \in 1..Len(acts) |-> acts[perm[n]]]

\* C9 (as stated): every reordering of the list gives the same result.
C9_Original ==
    pc = "bal_done" =>
        \A perm \in Permutations(1..Len(activities)) :
            CalcEnergyBalance(Permuted(activities, perm)).balance = balance

\* x is a float: rounding leaves it unchanged
Representable(x) == FRound(x, 1) = x

RECURSIVE ExactSum(_, _, _)
ExactSum(acts, S, sys) ==
    IF S = {} THEN 0
    ELSE LET n == CHOOSE m \in S : TRUE
         IN  FieldNumber(StrainField(acts[n], sys))
                 + ExactSum(acts, S \ {n}, sys)

\* no addition of the sums can round: every partial sum of every system,
\* in any order, and the grand total are representable
SumsExact(acts) ==
    LET all == 1..Len(acts)
    IN  /\ \A S \in SUBSET all : \A sys \in Systems :
               Representable(ExactSum(acts, S, sys))
        /\ Representable(ExactSum(acts, all, "sscp")
                             + ExactSum(acts, all, "ssw"))
        /\ Representable(ExactSum(acts, all, "sscp")
                             + ExactSum(acts, all, "ssw")
                             + ExactSum(acts, all, "sspmax"))

TotalFields ==
    {"aerobic_total", "glycolytic_total", "neuromuscular_total",
     "total_strain"}
PercentFields == {"aerobic_pct", "glycolytic_pct", "neuromuscular_pct"}

\* two sums of the same n non-negative terms (and of the three totals):
\* each addition rounds by at most 2^-MantBits of its result
SumsAgree(a, b, n) ==
    Abs(a - b) * Pow2(MantBits) <= 2 * (n + 2) * (IF a > b THEN a ELSE b)

\* two percentages computed from such sums: the rounding of the two sums,
\* of the division and of the multiplication, on a value of at most 100
PercentsAgree(a, b, n) ==
    Abs(a - b) * Pow2(MantBits)
        <= (4 * n + 4) * Hundred + (Hundred \div One) * Pow2(MantBits)

\* C9 (amended): every reordering of the list gives the same totals, the
\* same total_strain and the same percentages up to floating-point rounding
\* error, and exactly the same ones when the sums of the list are exact in
\* floating point (no partial sum is rounded).
C9_Permutation ==
    pc = "bal_done" =>
        \A perm \in Permutations(1..Len(activities)) :
            LET other == CalcEnergyBalance(Permuted(activities, perm)).balance
            IN  /\ SumsExact(activities) => other = balance
                /\ \A f \in TotalFields :
                       SumsAgree(other[f], balance[f], Len(activities))
                /\ \A f \in PercentFields :
                       PercentsAgree(other[f], balance[f], Len(activities))

\* three different activities whose sums are exact
C9_ExactList ==
    /\ pc = "bal_done"
    /\ SumsExact(activities)
    /\ Len(activities) = 3
    /\ activities[1] # activities[2]
    /\ activities[2] # activities[3]
    /\ \A pr \in BalancePairs : pr[1] > 0

\* a list with a rounded sum, one of whose reorderings gives another result
C9_Witness ==
    /\ pc = "bal_done"
    /\ ~SumsExact(activities)
    /\ \E perm \in Permutations(1..Len(activities)) :
           CalcEnergyBalance(Permuted(activities, perm)).balance # balance

ZeroIfMissing(val) == IF val.k = "num" THEN val ELSE Num(0)

\* the list with every absent or null strain field set to 0
Zeroed(acts) ==
    [n \in 1..Len(acts) |->
        [acts[n] EXCEPT !.ss_cp = ZeroIfMissing(@),
                        !.ss_w_prime = ZeroIfMissing(@),
                        !.ss_p_max = ZeroIfMissing(@)]]

\* C10: in both functions an activity whose ss_cp, ss_w_prime or ss_p_max
\* is missing or null gives the result of the same activity with that field
\* set to 0, and the field raises no exception.
C10_NullIsZero ==
    /\ pc \in {"done", "raised"} =>
          LET r == CalcStrainPmc(Zeroed(activities), as_of_date,
                                 ctl_days, atl_days)
          IN  /\ r.exc = exc
              /\ pc = "done" => r.pmc = pmc
    /\ pc = "bal_done" =>
          CalcEnergyBalance(Zeroed(activities)).balance = balance
    /\ pc # "bal_raised"

C10_Witness ==
    /\ pc = "done"
    /\ Len(processed) >= 2
    /\ pmc.sscp.ctl > 0
    /\ \E n \in 1..Len(activities) :
           /\ activities[n].ss_p_max.k = "null"
           /\ activities[n].ss_w_prime.k = "absent"
           /\ DateField(activities[n]).k = "iso"

\* the run of the balance function ends as the function composed of the
\* same loop body does
BalanceMatchesFunction ==
    pc = "bal_done" => CalcEnergyBalance(activities).balance = balance

-----------------------------------------------------------------------------
\* Properties of the tools and of the fetch.

\* the calculation has left no trace: it never started
NotCalculated ==
    /\ calls = <<>>
    /\ activities = <<>>
    /\ processed = <<>>
    /\ exc = "none"
    /\ pmc = ZeroPmc
    /\ balance = ZeroBalance

\* C11: when a chunk request returns an error dict it is the last request
\* made, the tool returns 'Error fetching activities: ...', the activities
\* of the earlier chunks are passed to nothing and neither
\* _calculate_strain_pmc nor _calculate_energy_balance is invoked.
C11_FetchError ==
    \A j \in 1..Len(requests) :
        requests[j].got = "error" =>
            /\ j = Len(requests)
            /\ tool_ret = "fetch_error"
            /\ pc = "tool_returned"
            /\ NotCalculated

\* the second chunk fails after the first one has brought activities
C11_Witness ==
    /\ caller = BalanceTool
    /\ Len(requests) = 2
    /\ requests[2].got = "error"
    /\ all_activities # <<>>
    /\ tool_ret = "fetch_error"

\* the fetch has returned its list
FetchDone == calls # <<>>

\* the requests whose window [oldest, newest] holds day d
WindowsOf(d) ==
    {j \in 1..Len(requests) :
        requests[j].oldest.d <= d /\ d <= requests[j].newest.d}

\* C12 (as stated): for start_date <= end_date every day of
\* [start_date, end_date] lies in exactly one request window, consecutive
\* windows follow each other without gap, and a range that fits in one
\* 90-day chunk is fetched by the single request [start_date, end_date].
C12_Original ==
    (FetchDone /\ fetch_start.d <= end_date.d) =>
        /\ \A d \in fetch_start.d..end_date.d : Cardinality(WindowsOf(d)) = 1
        /\ \A j \in 1..(Len(requests) - 1) :
               requests[j + 1].oldest.d = requests[j].newest.d + 1
        /\ (end_date.d - fetch_start.d + 1 <= ChunkDays) =>
               /\ Len(requests) = 1
               /\ requests[1].oldest = fetch_start
               /\ requests[1].newest = end_date

NotIsoDate(param) == param.k \in {"low", "high"}

\* the tool has not touched the API nor a calculation
NothingDone == requests = <<>> /\ NotCalculated

C18_Original ==
    (caller = BalanceTool /\ tool_ret = "report") =>
        IF Truthy(start_param)
        THEN /\ fetch_start = start_param
             /\ end_date = IF Truthy(end_param) THEN end_param
                           ELSE Strftime(Now)
        ELSE /\ end_date.d - fetch_start.d + 1 = days
             /\ days_in_period = days

-----------------------------------------------------------------------------
\* Decay under a constant load and after a single day of load.

\* the call is the one with the load on every day up to as_of_date
ConstantLoadRun ==
    /\ caller = "direct"
    /\ \E load \in DecayLoads :
           activities = ConstantList(load, as_of_date.day)

ConstantLoad == activities[1].ss_cp.v

\* fitness of the aerobic system after day j of the series
Fitness(j) == trace[j].sscp.ctl

\* 1 - a_fit
FitFactor == FSub(One, FExp(NegInverse(ctl_days)))

\* fitness has reached its limit on day j: the next day leaves it as it is
Settled(j) == j < Len(trace) /\ Fitness(j + 1) = Fitness(j)

\* x is within rounding error of the constant load: two units in the last
\* place of the load, divided by 1 - a_fit
NearLoad(x) ==
    Abs(ConstantLoad - x) * FitFactor * Pow2(MantBits)
        <= 2 * ConstantLoad * One

SpikeRun ==
    /\ caller = "direct"
    /\ \E load \in SpikeLoads : activities = SpikeList(load)
    /\ atl_days < ctl_days

\* the form of the aerobic system reported as of day j
Form(j) == FSub(trace[j].sscp.ctl, trace[j].sscp.atl)

\* the largest form of the series
PeakForm == CHOOSE x \in {Form(j) : j \in 1..Len(trace)} :
                \A j \in 1..Len(trace) : Form(j) <= x

\* C15: after a single day of load the form is negative on that day, is
\* strictly positive by day ctl_days + 1 and on every day after its first
\* positive day, and from day 3 * ctl_days on it is below its peak; the
\* form the call returns is the form of the last day
C15_FormAfterSpike ==
    (pc = "done" /\ SpikeRun) =>
        /\ Form(1) < 0
        /\ pmc.sscp.tsb = Form(Len(trace))
        /\ Len(trace) > ctl_days => Form(Len(trace)) > 0
        /\ \A j \in 1..Len(trace) :
               /\ (j < Len(trace) /\ Form(j) > 0) => Form(j + 1) > 0
               /\ j >= 3 * ctl_days => Form(j) < PeakForm

\* a spike followed long enough: the form is positive and below its peak
C15_Witness ==
    /\ pc = "done"
    /\ SpikeRun
    /\ Len(trace) >= 3 * ctl_days
    /\ Form(1) < 0
    /\ Form(Len(trace)) > 0
    /\ Form(Len(trace)) < PeakForm

-----------------------------------------------------------------------------
\* Properties of get_athlete_settings and get_power_curve.

\* the first request of the tool came back as an error dict
PrimaryError ==
    \/ caller = SettingsTool /\ sport_settings_result \in ErrorDicts
    \/ caller = CurveTool /\ curve_result.k = "dict"
                          /\ curve_result.error.k # "missing"

\* the message of that error dict
UpstreamMessage ==
    IF caller = SettingsTool THEN sport_settings_result.d["message"]
    ELSE curve_result.message

\* C19: when the first request of get_power_curve or get_athlete_settings
\* returns an error dict, the tool returns the text "Error fetching ...: "
\* followed by the upstream message, has made that one request only, and
\* has merged, extracted and formatted nothing
C19_PrimaryError ==
    PrimaryError =>
        /\ pc = "endpoint_returned"
        /\ returned.kind = "error_text"
        /\ returned.prefix =
               IF caller = SettingsTool
               THEN "Error fetching athlete settings: "
               ELSE "Error fetching power curve: "
        /\ UpstreamMessage.k = "str" => returned.message = UpstreamMessage.s
        /\ urls = IF caller = SettingsTool THEN <<"sport-settings">>
                  ELSE <<"power-curves">>
        /\ merged_settings = EmptySettings
        /\ power_curve_data = EmptyCurve

\* get_athlete_settings has returned the text of an error dict that
\* carries a message
C19_Witness ==
    /\ caller = SettingsTool
    /\ PrimaryError
    /\ pc = "endpoint_returned"
    /\ returned.message = "Athlete not found"
    /\ Len(urls) = 1

\* two sport types that differ in case only
SameSport(a, b) ==
    \/ a = b
    \/ {a, b} \subseteq {"Ride", "ride", "RIDE"}
    \/ {a, b} \subseteq {"Run", "run"}
    \/ {a, b} \subseteq {"VirtualRide", "virtualride"}

\* entry n of the sport-settings list is a dict whose types list holds the
\* requested sport type
Matches(n) ==
    LET e == sport_settings_result.l[n]
    IN  /\ e.k = "dict"
        /\ e.d["types"].k = "list"
        /\ \E m \in 1..Len(e.d["types"].items) :
               /\ e.d["types"].items[m].k = "str"
               /\ SameSport(e.d["types"].items[m].s, sport_type)

FirstMatch ==
    CHOOSE n \in 1..Len(sport_settings_result.l) :
        Matches(n) /\ \A m \in 1..(n - 1) : ~Matches(m)

\* get_athlete_settings went through the merge and returned normally
SettingsMerged ==
    /\ caller = SettingsTool
    /\ pc = "endpoint_returned"
    /\ returned.kind \in {"formatted", "not_found"}

\* C20: when an entry of the sport-settings list matches sport_type
\* without regard to case, the formatted settings hold the requested
\* sport_type, every field of the first matching entry, the athlete-level
\* fields that entry does not have, and nothing else
C20_SportType ==
    (SettingsMerged /\ \E n \in 1..Len(sport_settings_result.l) : Matches(n))
        => /\ returned.kind = "formatted"
           /\ \A key \in SettingKeys :
                  merged_settings[key] =
                      IF key = "sport_type" THEN Str(sport_type)
                      ELSE IF sport_settings_result.l[FirstMatch].d[key]
                                  # NoVal
                      THEN sport_settings_result.l[FirstMatch].d[key]
                      ELSE IF key \in AthleteKeys /\ athlete_result.k = "dict"
                      THEN athlete_result.d[key]
                      ELSE NoVal

\* the second entry matches in another case, the first does not, and the
\* entry's name replaces the athlete's
C20_Witness ==
    /\ SettingsMerged
    /\ sport_type = "ride"
    /\ Len(sport_settings_result.l) = 2
    /\ ~Matches(1)
    /\ Matches(2)
    /\ athlete_result.d["name"] = Str("Test Athlete")
    /\ merged_settings["name"] = Str("VirtualRide")
    /\ merged_settings["weight"] = Str("83.5")
    /\ merged_settings["ftp"] = Str("270")

-----------------------------------------------------------------------------
\* Independence of the invocations.

\* the activities _fetch_all_activities gathers from the responses got,
\* starting with response n: [error, acts]
RECURSIVE Gathered(_, _, _, _, _)
Gathered(cstart, cend, got, n, acts) ==
    IF ~FetchCond(cstart, cend) \/ n > Len(got)
    THEN [error |-> FALSE, acts |-> acts]
    ELSE IF got[n].k = "error" THEN [error |-> TRUE, acts |-> acts]
    ELSE Gathered(Strftime(AddDays(WindowEnd(cstart, cend), 1)), cend, got,
                  n + 1, acts \o _parse_activities_from_result(got[n]))

\* what the invocation returns when it runs alone and is answered as it
\* was answered
Alone(task) ==
    LET range == IF task.tool = StrainTool
                 THEN StrainRange(Now, task.n)
                 ELSE BalanceRange(NoneParam, NoneParam, task.n)
        g == Gathered(range.start, range.end, task.got, 1, <<>>)
    IN  IF g.error THEN [NoReturn EXCEPT !.kind = "fetch_error"]
        ELSE IF task.tool = StrainTool
        THEN LET r == CalcStrainPmc(g.acts, Now, DefaultCtlDays,
                                    DefaultAtlDays)
             IN  [NoReturn EXCEPT
                      !.kind = IF r.exc = "none" THEN "report" ELSE r.exc,
                      !.pmc = r.pmc]
        ELSE LET r == CalcEnergyBalance(g.acts)
             IN  [NoReturn EXCEPT
                      !.kind = IF r.exc = "none" THEN "report" ELSE r.exc,
                      !.balance = r.balance,
                      !.count = Len(g.acts)]

\* C16: however two invocations are interleaved at their chunk requests,
\* each returns what it returns when run alone, the activity list it
\* passed to its calculation is as it was passed, and two invocations of
\* the same tool with the same inputs and responses return the same
C16_Independent ==
    \A t \in DOMAIN tasks :
        tasks[t].pc = "returned" =>
            /\ tasks[t].ret = Alone(tasks[t])
            /\ tasks[t].ret.kind # "fetch_error" =>
                   tasks[t].all_activities = tasks[t].passed
            /\ \A u \in DOMAIN tasks :
                   (/\ tasks[u].pc = "returned"
                    /\ tasks[u].tool = tasks[t].tool
                    /\ tasks[u].n = tasks[t].n
                    /\ tasks[u].got = tasks[t].got)
                       => tasks[u].ret = tasks[t].ret

\* two calls of get_strain_pmc, the second answered while the first was
\* still fetching, both given activities of the same day
C16_Witness ==
    /\ DOMAIN tasks = Tasks
    /\ \A t \in Tasks :
           /\ tasks[t].pc = "returned"
           /\ tasks[t].tool = StrainTool
           /\ tasks[t].ret.kind = "report"
           /\ Len(tasks[t].all_activities) > 0
    /\ tasks[1].n # tasks[2].n
    /\ kept.daily # EmptyDict

-----------------------------------------------------------------------------
\* Termination of the fetch.

\* C21 (as stated): every request window starts strictly later than the
\* one before it, so the fetch ends after finitely many requests
C21_Original ==
    \A j \in 1..(Len(requests) - 1) :
        requests[j].oldest.d < requests[j + 1].oldest.d

-----------------------------------------------------------------------------
\* Consistency of the energy-balance report.

Report == FormatEnergyBalanceResponse(balance)

Reported == caller = BalanceTool /\ tool_ret = "report"

WellBalanced ==
    Report.recommendations = <<"Strain distribution is well-balanced">>

AllAdequate ==
    /\ Report.distribution.aerobic = "Adequate"
    /\ Report.distribution.glycolytic = "Adequate"
    /\ Report.distribution.neuromuscular = "Adequate"

\* C22 (as stated): a report of a non-zero total strain that recommends
\* "well-balanced" calls every system Adequate and lists no DEFICIENT system
C22_Original ==
    (Reported /\ balance.total_strain # 0 /\ WellBalanced)
        => (AllAdequate /\ Report.deficient_systems = <<>>)

====
